---- MODULE Spec2Model ----
(***************************************************************************)
(* A model of typing-bird (cmd/typing-bird/main.go): the message encoder,  *)
(* the idle detector, the pane and command-line functions, the inject      *)
(* branch and the dispatch loop of run(), and the signal listener          *)
(* installed by installInterruptHandlers.                                  *)
(*                                                                         *)
(* The specifications of the module:                                       *)
(*   SpecEnc    applies messageSendActions to every bounded message;       *)
(*   SpecIdle   applies the comparison of idleSamplesTarget to every       *)
(*              bounded sequence of successful captures;                   *)
(*   SpecPick   applies pickPreferredSendPane to every bounded listing;    *)
(*   SpecParse  applies parseBirdPaneIDs to every bounded listing;         *)
(*   SpecChild  applies buildChildArgs to every bounded configuration;     *)
(*   SpecQuote  applies shellCommandForExec to every bounded argument list;*)
(*   SpecInject runs the inject branch of run() against a tmux session;    *)
(*   SpecRound  runs one call of idleSamplesTarget, counting its captures  *)
(*              and its sleeps;                                            *)
(*   Spec       runs run() in dispatch mode against a pane, with the       *)
(*              signal listener as a second process;                       *)
(*   SpecLive   is Spec with weak fairness of the main goroutine, for the  *)
(*              progress of the dispatch loop.                             *)
(***************************************************************************)
EXTENDS Integers, Sequences, FiniteSets, TLC

(***************************************************************************)
(* Bounds of the model.                                                    *)
(***************************************************************************)
MaxLen == 4          \* longest message given to the encoder
MaxSamples == 5      \* largest sample count given to the pure idle comparison

(***************************************************************************)
(* A Go string is a byte sequence; here it is a sequence of units, each a   *)
(* well-formed UTF-8 character or one byte that is not valid UTF-8.        *)
(* CR and LF are '\r' and '\n'; "a" and "b" stand for every other         *)
(* well-formed character; BadByte is a byte such as 0xFF.                  *)
(***************************************************************************)
CR == "CR"
LF == "LF"
BadByte == "xFF"
RuneError == "uFFFD"
Runes == {CR, LF, "a", "b", BadByte}

\* `for _, r := range s` followed by WriteRune(r): a well-formed character is
\* written back as it was read; an invalid byte is read as utf8.RuneError and
\* written as the encoding of U+FFFD.
decodeRune(u) == IF u = BadByte THEN RuneError ELSE u

\* main.go:23  enterKey = "Enter" (a key name, kept as a one-symbol string)
enterKey == <<"Enter">>

RECURSIVE SeqsUpTo(_, _)
SeqsUpTo(S, n) ==
    IF n = 0 THEN {<<>>}
    ELSE LET shorter == SeqsUpTo(S, n - 1)
         IN  shorter \cup {Append(s, x) : s \in {t \in shorter : Len(t) = n - 1}, x \in S}

Last(s) == s[Len(s)]
Front(s) == SubSeq(s, 1, Len(s) - 1)

(***************************************************************************)
(* The message encoder, main.go:642-683.                                   *)
(***************************************************************************)
\* type sendAction struct { value string; literal bool }
sendAction(value, literal) == [value |-> value, literal |-> literal]

\* the closure flushLiteral: appends the pending literal unless it is empty
flushLiteral(actions, current) ==
    IF Len(current) = 0 THEN actions
    ELSE Append(actions, sendAction(current, TRUE))

\* A plausible slip: a '\n' after '\r' is not swallowed.
encStepNoCRLF(st, r, enter) ==
    IF r = CR \/ r = LF
    THEN [actions   |-> Append(flushLiteral(st.actions, st.current), sendAction(enter, FALSE)),
          current   |-> <<>>,
          prevWasCR |-> (r = CR)]
    ELSE [actions |-> st.actions, current |-> Append(st.current, decodeRune(r)), prevWasCR |-> FALSE]

\* one iteration of `for _, r := range message { switch r {...} }`
encStep(st, r, enter) ==
    CASE r = CR ->
           [actions   |-> Append(flushLiteral(st.actions, st.current), sendAction(enter, FALSE)),
            current   |-> <<>>,
            prevWasCR |-> TRUE]
      [] r = LF ->
           IF st.prevWasCR
           THEN [actions |-> st.actions, current |-> st.current, prevWasCR |-> FALSE]
           ELSE [actions   |-> Append(flushLiteral(st.actions, st.current), sendAction(enter, FALSE)),
                 current   |-> <<>>,
                 prevWasCR |-> FALSE]
      [] OTHER ->
           [actions |-> st.actions, current |-> Append(st.current, decodeRune(r)), prevWasCR |-> FALSE]

RECURSIVE encLoop(_, _, _, _)
encLoop(message, k, st, enter) ==
    IF k > Len(message) THEN st
    ELSE encLoop(message, k + 1, encStep(st, message[k], enter), enter)

\* A plausible slip: no trailing key when the message already ended in one.
encFinishNoDup(st, enter) ==
    LET flushed == flushLiteral(st.actions, st.current)
    IN  IF Len(flushed) > 0 /\ ~Last(flushed).literal THEN flushed
        ELSE Append(flushed, sendAction(enter, FALSE))

\* the tail of messageSendActions: flushLiteral(); append the enter key
encFinish(st, enter) ==
    Append(flushLiteral(st.actions, st.current), sendAction(enter, FALSE))

messageSendActions(message, enter) ==
    encFinish(encLoop(message, 1,
                      [actions |-> <<>>, current |-> <<>>, prevWasCR |-> FALSE],
                      enter),
              enter)

(***************************************************************************)
(* The comparison at the end of idleSamplesTarget, main.go:258-299, on a   *)
(* round of captures that all succeeded.  A capture is a byte sequence.    *)
(***************************************************************************)
CaptureValues == {<<>>, <<1>>, <<2>>, <<1, 2>>}

\* A plausible slip: the loop stops one sample early.
idleCompareSkipLast(caps, samples) ==
    [allEqual |-> \A i \in 2..(samples - 1) : caps[1] = caps[i],
     baseLen  |-> Len(caps[1])]

\* A plausible slip: only the second sample is compared with the first.
idleCompareFirstPair(caps, samples) ==
    [allEqual |-> \A i \in 2..(IF samples < 2 THEN samples ELSE 2) : caps[1] = caps[i],
     baseLen  |-> Len(caps[1])]

\* A plausible slip: each sample is compared with nothing but the last one.
idleCompareLastOnly(caps, samples) ==
    [allEqual |-> caps[1] = caps[samples],
     baseLen  |-> Len(caps[1])]

\* base := caps[0]; allEqual := true; for i := 1; i < samples; i++ {...}
idleCompare(caps, samples) ==
    [allEqual |-> \A i \in 2..samples : caps[1] = caps[i],
     baseLen  |-> Len(caps[1])]

(***************************************************************************)
(* run() in dispatch mode, main.go:32-200, and its inputs.                 *)
(***************************************************************************)
\* main.go:21, 22 and the buffer of `c := make(chan os.Signal, 2)`
defaultIdleSamples == 5
interruptWindow == 5
signalBuffer == 2

\* Bound on the length of a run.
MaxSent == 3     \* messages dispatched before the model stops the loop

SIGINT == "SIGINT"
SIGTERM == "SIGTERM"

\* A duration flag as time.ParseDuration sees it: it parses or not, to a value in ns.
Dur(v) == [parses |-> TRUE, value |-> v]
BadDur == [parses |-> FALSE, value |-> 0]

session == <<"s">>
NoMessages == <<session>>
TwoMessages == <<session, <<"a", LF, "b">>, <<>>>>
ThreeMessages == <<session, <<"a">>, <<CR, LF>>, <<"b">>>>

\* The command line and the environment of one dispatch run.
BaseInput ==
    [timeoutValue |-> Dur(8), delayValue |-> Dur(0), inject |-> FALSE,
     targetPaneValue |-> "%1", args |-> TwoMessages,
     tmuxInPath |-> TRUE, sessionExists |-> TRUE]

\* The base input with one field changed at a time.
Inputs ==
    {BaseInput}
    \cup {[BaseInput EXCEPT !.timeoutValue = v] : v \in {BadDur, Dur(-1), Dur(0), Dur(3)}}
    \cup {[BaseInput EXCEPT !.delayValue = v] : v \in {BadDur, Dur(-1)}}
    \cup {[BaseInput EXCEPT !.inject = TRUE]}
    \cup {[BaseInput EXCEPT !.targetPaneValue = ""]}
    \cup {[BaseInput EXCEPT !.args = a] : a \in {<<>>, NoMessages, ThreeMessages}}
    \cup {[BaseInput EXCEPT !.tmuxInPath = FALSE]}
    \cup {[BaseInput EXCEPT !.sessionExists = FALSE]}

\* what tmux capture-pane can print for the send target
PaneContents == {<<1>>, <<1, 2>>}
\* no capture: not a content of the pane
NoCapture == <<0>>

\* strings.TrimSpace on the pane names of the model
TrimSpace(s) == CASE s = " " -> "" [] s = " 1" -> "1" [] OTHER -> s

\* parseDuration(raw, name, requirePositive), main.go:202-217
parseDuration(raw, requirePositive) ==
    IF ~raw.parses THEN [err |-> TRUE, value |-> 0]
    ELSE IF requirePositive
         THEN (IF raw.value <= 0 THEN [err |-> TRUE, value |-> 0]
               ELSE [err |-> FALSE, value |-> raw.value])
         ELSE (IF raw.value < 0 THEN [err |-> TRUE, value |-> 0]
               ELSE [err |-> FALSE, value |-> raw.value])

NoReport == [kind |-> "none", index |-> 0, target |-> ""]
\* cancel() has not been called
NoCancel == [sent |-> -1, pc |-> "none", i |-> 0, waitErr |-> "nil"]

(***************************************************************************)
(* Pane listings.  The output of `tmux list-panes -F a\tb\tc` is a         *)
(* sequence of lines (strings.Split(raw, "\n")), and a line the sequence   *)
(* of its tab-separated fields; <<"">> is a blank line such as the one     *)
(* after the last newline.                                                 *)
(***************************************************************************)
MaxPanes == 3        \* most lines of a listing

\* strings.TrimSpace(line) == "" : every field of the line is blank
BlankLine(line) == \A k \in 1..Len(line) : TrimSpace(line[k]) = ""

\* A plausible slip: the active pane is taken even when it is tagged injected.
pickStepInjectedActive(line, first) ==
    IF BlankLine(line) \/ Len(line) < 3 THEN [ret |-> FALSE, first |-> first]
    ELSE LET paneID == TrimSpace(line[1])
             active == TrimSpace(line[2])
             injected == TrimSpace(line[3]) = "1"
         IN  IF paneID = "" THEN [ret |-> FALSE, first |-> first]
             ELSE IF active = "1" THEN [ret |-> TRUE, first |-> paneID]
             ELSE IF injected THEN [ret |-> FALSE, first |-> first]
             ELSE [ret |-> FALSE, first |-> IF first = "" THEN paneID ELSE first]

\* one iteration of the loop of pickPreferredSendPane (main.go:446-466):
\* ret says that the function returns first at once
pickStep(line, first) ==
    IF BlankLine(line) \/ Len(line) < 3 THEN [ret |-> FALSE, first |-> first]
    ELSE LET paneID == TrimSpace(line[1])
             active == TrimSpace(line[2])
             injected == TrimSpace(line[3]) = "1"
         IN  IF paneID = "" \/ injected THEN [ret |-> FALSE, first |-> first]
             ELSE IF active = "1" THEN [ret |-> TRUE, first |-> paneID]
             ELSE [ret |-> FALSE, first |-> IF first = "" THEN paneID ELSE first]

RECURSIVE pickLoop(_, _, _)
pickLoop(lines, k, firstNonInjected) ==
    IF k > Len(lines) THEN firstNonInjected
    ELSE LET st == pickStep(lines[k], firstNonInjected)
         IN  IF st.ret THEN st.first ELSE pickLoop(lines, k + 1, st.first)

\* pickPreferredSendPane(raw), main.go:443-468
pickPreferredSendPane(raw) == pickLoop(raw, 1, "")

\* the lines `list-panes -F "#{pane_id}\t#{pane_active}\t#{@typing_bird_injected}"`
\* can print, a blank line and a line cut short
PickLines ==
    {<<id, active, tag>> : id \in {"%1", "%2", " "}, active \in {"0", "1"},
                           tag \in {"", "1", " 1"}}
        \cup {<<"">>, <<"%1", "1">>}

\* whether paneID is already in panes (the map seen of parseBirdPaneIDs)
Seen(panes, paneID) == \E k \in 1..Len(panes) : panes[k] = paneID

\* A plausible slip: a pane is taken only when tagged AND running the tool.
parseStepBothNeeded(line, commandName, panes) ==
    IF BlankLine(line) \/ Len(line) < 3 THEN panes
    ELSE LET paneID == TrimSpace(line[1])
             injectedFlag == TrimSpace(line[2])
             currentCommand == TrimSpace(line[3])
         IN  IF paneID = "" THEN panes
             ELSE IF injectedFlag # "1"
                     \/ (currentCommand # commandName /\ currentCommand # "typing-bird")
                  THEN panes
             ELSE IF Seen(panes, paneID) THEN panes
             ELSE Append(panes, paneID)

\* one iteration of the loop of parseBirdPaneIDs (main.go:384-406)
parseStep(line, commandName, panes) ==
    IF BlankLine(line) \/ Len(line) < 3 THEN panes
    ELSE LET paneID == TrimSpace(line[1])
             injectedFlag == TrimSpace(line[2])
             currentCommand == TrimSpace(line[3])
         IN  IF paneID = "" THEN panes
             ELSE IF injectedFlag # "1" /\ currentCommand # commandName
                     /\ currentCommand # "typing-bird"
                  THEN panes
             ELSE IF Seen(panes, paneID) THEN panes
             ELSE Append(panes, paneID)

RECURSIVE parseLoop(_, _, _, _)
parseLoop(lines, k, commandName, panes) ==
    IF k > Len(lines) THEN panes
    ELSE parseLoop(lines, k + 1, commandName, parseStep(lines[k], commandName, panes))

\* parseBirdPaneIDs(raw, commandName), main.go:380-408
parseBirdPaneIDs(raw, commandName) == parseLoop(raw, 1, commandName, <<>>)

\* the lines `list-panes -F "#{pane_id}\t#{@typing_bird_injected}\t#{pane_current_command}"`
\* can print, a blank line and a line cut short; "tb" is the executable's base
\* name when it was installed under another name
ParseLines ==
    {<<id, tag, cmd>> : id \in {"%1", "%2", " "}, tag \in {"", "1"},
                        cmd \in {"bash", "typing-bird", "tb"}}
        \cup {<<"">>, <<"%1", "1">>}
CommandNames == {"typing-bird", "tb"}

(***************************************************************************)
(* The child command line: buildChildArgs, main.go:490-501, and how the    *)
(* child reads it back with flag.Parse (main.go:58-69).  An argument is a  *)
(* string; the arguments of the model that begin with '-' and are at least *)
(* two bytes long are FlagArgs and "--".                                  *)
(***************************************************************************)
MaxMsgs == 2         \* most messages handed to buildChildArgs

\* time.Duration.String() on the durations of the model
DurationString(d) == CASE d = 0 -> "0s" [] d = 3 -> "3s" [] OTHER -> "8s"

\* buildChildArgs(timeout, delay, session, messages, targetPane, verbose)
buildChildArgs(timeoutD, delayD, sessionName, msgs, targetPane, verbose) ==
    <<"-t", DurationString(timeoutD), "-d", DurationString(delayD)>>
        \o (IF verbose THEN <<"--verbose">> ELSE <<>>)
        \o (IF TrimSpace(targetPane) # "" THEN <<"--target-pane", targetPane>> ELSE <<>>)
        \o <<sessionName>> \o msgs

\* the spellings of the flags run() defines (main.go:58-68)
FlagArgs ==
    {"-t", "--timeout", "-d", "--delay", "-v", "--verbose", "-i", "--inject",
     "--inject=true", "--target-pane"}
\* the variable a flag sets, and whether it is a boolean flag
flagOf(arg) ==
    CASE arg \in {"-t", "--timeout"} -> [var |-> "timeoutValue", bool |-> FALSE]
      [] arg \in {"-d", "--delay"} -> [var |-> "delayValue", bool |-> FALSE]
      [] arg \in {"-v", "--verbose"} -> [var |-> "verbose", bool |-> TRUE]
      [] arg \in {"-i", "--inject", "--inject=true"} -> [var |-> "inject", bool |-> TRUE]
      [] OTHER -> [var |-> "targetPaneValue", bool |-> FALSE]
\* len(s) >= 2 && s[0] == '-' on the arguments of the model
Dashed(arg) == arg \in FlagArgs \/ arg = "--"

\* the variables of run() before flag.Parse, with the arguments left
FlagDefaults(args) ==
    [timeoutValue |-> "default", delayValue |-> "default", verbose |-> FALSE,
     inject |-> FALSE, targetPaneValue |-> "", args |-> args, err |-> FALSE]

RECURSIVE flagParse(_)
\* flag.Parse: FlagSet.parseOne until the first argument that is not a flag
flagParse(st) ==
    IF st.args = <<>> THEN st
    ELSE LET arg == Head(st.args)
             rest == Tail(st.args)
         IN  IF ~Dashed(arg) THEN st
             ELSE IF arg = "--" THEN [st EXCEPT !.args = rest]
             ELSE LET f == flagOf(arg)
                  IN  IF f.bool
                      THEN flagParse([st EXCEPT ![f.var] = TRUE, !.args = rest])
                      ELSE IF rest = <<>> THEN [st EXCEPT !.err = TRUE, !.args = rest]
                      ELSE flagParse([st EXCEPT ![f.var] = Head(rest), !.args = Tail(rest)])

SessionNames == {"s", "-i", "-v"}
MessageTexts == {"m", "-i", "--inject=true"}

(***************************************************************************)
(* Shell quoting, main.go:558-565 and 685-701, and the word splitting of a *)
(* POSIX shell that reads the command back.  A string is a sequence of     *)
(* units as above; SQ is the single quote, SP the space, BS the backslash. *)
(***************************************************************************)
MaxWord == 3         \* longest argument given to the quoting
MaxArgs == 2         \* most arguments given to shellCommandForExec

SQ == "'"
SP == " "
BS == "bs"
QuoteUnits == {SQ, SP, BS, "a", BadByte}

RECURSIVE quoteLoop(_, _, _)
\* `for _, r := range value`: a quote becomes '\'' , any other rune is written
quoteLoop(value, k, builder) ==
    IF k > Len(value) THEN builder
    ELSE quoteLoop(value, k + 1,
                   IF value[k] = SQ THEN builder \o <<SQ, BS, SQ, SQ>>
                   ELSE Append(builder, decodeRune(value[k])))

\* shellQuoteSingle(value), main.go:685-701
shellQuoteSingle(value) ==
    IF value = <<>> THEN <<SQ, SQ>>
    ELSE Append(quoteLoop(value, 1, <<SQ>>), SQ)

RECURSIVE JoinSP(_)
\* strings.Join(parts, " ")
JoinSP(parts) ==
    IF parts = <<>> THEN <<>>
    ELSE IF Len(parts) = 1 THEN parts[1]
    ELSE parts[1] \o <<SP>> \o JoinSP(Tail(parts))

\* shellCommandForExec(executable, args), main.go:558-565
shellCommandForExec(executable, args) ==
    JoinSP(<<shellQuoteSingle(executable)>>
               \o [k \in 1..Len(args) |-> shellQuoteSingle(args[k])])

RECURSIVE shSplit(_, _, _, _, _, _)
\* How sh splits a command line into words (POSIX 2.2 and 2.6.5, for the units
\* of the model): inside single quotes every unit is literal up to the closing
\* quote; outside, a backslash makes the next unit literal, a quote opens a
\* quoted part, a space ends the word.  inWord tells '' from no word at all.
shSplit(line, k, mode, word, inWord, words) ==
    IF k > Len(line)
    THEN (IF inWord THEN Append(words, word) ELSE words)
    ELSE LET u == line[k]
         IN  CASE mode = "quoted" ->
                    IF u = SQ THEN shSplit(line, k + 1, "plain", word, TRUE, words)
                    ELSE shSplit(line, k + 1, "quoted", Append(word, u), TRUE, words)
               [] mode = "escaped" ->
                    shSplit(line, k + 1, "plain", Append(word, u), TRUE, words)
               [] OTHER ->
                    IF u = SQ THEN shSplit(line, k + 1, "quoted", word, TRUE, words)
                    ELSE IF u = BS THEN shSplit(line, k + 1, "escaped", word, TRUE, words)
                    ELSE IF u = SP
                    THEN shSplit(line, k + 1, "plain", <<>>, FALSE,
                                 IF inWord THEN Append(words, word) ELSE words)
                    ELSE shSplit(line, k + 1, "plain", Append(word, u), TRUE, words)
shWords(line) == shSplit(line, 1, "plain", <<>>, FALSE, <<>>)

VARIABLES
    encMessage,   \* SpecEnc: the message handed to messageSendActions
    encOut,       \* SpecEnc: its result
    encDone,      \* SpecEnc: the call has returned
    idleSamples,  \* SpecIdle: the argument samples
    idleCaps,     \* SpecIdle: the captures of the round
    idleOut,      \* SpecIdle: the result
    idleDone,     \* SpecIdle: the call has returned
    roundPc,      \* SpecRound: where one call of idleSamplesTarget is
    roundDuration,  \*   its argument duration (idleSamples is its argument samples)
    roundI,       \*   its loop variable i (idleCaps is its caps)
    roundSleeps,  \*   the lengths of the sleeps it has completed
    roundCtx,     \*   ctx.Done() is closed
    roundErr,     \*   the error it returned
    callArgs,     \* SpecPick, ...: the arguments of the function under check
    callOut,      \*   its result
    callDone,     \*   the call has returned
    currentPane,  \* SpecInject: strings.TrimSpace(os.Getenv("TMUX_PANE"))
    panes,        \*   the panes of the session on the tmux server, in listing order
    ipc,          \*   where run() is in its inject branch
    restartPanes, restartIdx,   \* tmuxRestartExistingBirdPanes: panes and the range index
    skippedCurrentPane,
    belongs, injected,   \* resolveInjectionSendTarget: the answers of its two queries
    sendTargetPane, injectedPaneID,
    injStatus,    \*   the value run() returned, -1 while it runs
    failedStep,   \*   the step whose error made run() return, "none" otherwise
    ops,          \*   the tmux commands that changed or tried to change a pane
    input,        \* the flags, arguments and startup environment of run()
    pc,           \* where the main goroutine is
    messages, timeout, sendTarget, messageIndex,   \* locals of run()
    exitStatus,   \* the value run() returned, -1 while it runs
    errReport,    \* the ERROR line run() printed about a failed wait or send
    waitErr,      \* what waitForTargetIdle returned: "nil", "canceled", "gone"
    baseLen,      \* the length waitForTargetIdle returned
    i, caps,      \* locals of idleSamplesTarget
    idleRounds,   \* rounds completed so far whose captures were all identical
    prevRoundLast,  \* the last capture of the round this wait just ended not idle
    actions, actionIdx,  \* tmuxSendMessage: the range over messageSendActions
    ctxDone,      \* ctx.Done() is closed
    atCancel,     \* where the main goroutine was when cancel() was called
    lpc,          \* where the listener goroutine is
    sig,          \* the signal the listener received last
    c,            \* the signal channel
    lastIsZero,   \* last.IsZero()
    sinceLast,    \* now.Sub(last) at the last receive, capped above the window
    interruptCode,
    targetExists, \* the send target is still a pane of the tmux server
    dispatched,   \* the indices of the messages dispatched in full, in order
    sendFailedAt  \* <<messageIndex, actionIdx>> of the send tmux failed, or <<>>

encVars == <<encMessage, encOut, encDone>>
roundVars == <<roundPc, roundDuration, roundI, roundSleeps, roundCtx, roundErr>>
idleVars == <<idleSamples, idleCaps, idleOut, idleDone, roundVars>>
runVars == <<messages, timeout, sendTarget, messageIndex, exitStatus, errReport>>
waitVars == <<waitErr, baseLen, i, caps, idleRounds, prevRoundLast>>
callVars == <<callArgs, callOut, callDone>>
injVars == <<currentPane, panes, ipc, restartPanes, restartIdx, skippedCurrentPane,
             belongs, injected, sendTargetPane, injectedPaneID, injStatus,
             failedStep, ops>>
others == <<encVars, idleVars, callVars, injVars>>
sendVars == <<actions, actionIdx, dispatched, sendFailedAt>>
listenVars == <<lpc, sig, lastIsZero, sinceLast, interruptCode>>
mainVars == <<input, pc, runVars, waitVars, sendVars, ctxDone, atCancel, listenVars, c,
              targetExists>>
vars == <<encVars, idleVars, callVars, injVars, mainVars>>

EncIdle == encMessage = <<>> /\ encOut = <<>> /\ encDone = FALSE
CallIdle == callArgs = <<>> /\ callOut = <<>> /\ callDone = FALSE
RoundLocals ==
    /\ roundI = 0 /\ roundSleeps = <<>> /\ roundCtx = FALSE /\ roundErr = "nil"
IdleIdle ==
    /\ idleSamples = 1 /\ idleCaps = <<>> /\ idleDone = FALSE
    /\ idleOut = [allEqual |-> FALSE, baseLen |-> 0]
    /\ roundPc = "off" /\ roundDuration = 0 /\ RoundLocals

\* the state before run() has done anything
RunInit ==
    /\ pc = "start"
    /\ messages = <<>> /\ timeout = 0 /\ sendTarget = "" /\ messageIndex = 0
    /\ exitStatus = -1 /\ errReport = NoReport
    /\ waitErr = "nil" /\ baseLen = 0 /\ i = 0 /\ caps = <<>> /\ idleRounds = 0
    /\ prevRoundLast = NoCapture
    /\ actions = <<>> /\ actionIdx = 0 /\ dispatched = <<>> /\ sendFailedAt = <<>>
    /\ ctxDone = FALSE /\ atCancel = NoCancel
    /\ lpc = "off" /\ sig = "none" /\ c = <<>> /\ lastIsZero = TRUE /\ sinceLast = 0
    /\ interruptCode = 0
    /\ targetExists = TRUE

\* the inject branch before it has done anything
InjectLocals ==
    /\ restartPanes = <<>> /\ restartIdx = 0 /\ skippedCurrentPane = FALSE
    /\ belongs = "unasked" /\ injected = "unasked"
    /\ sendTargetPane = "" /\ injectedPaneID = ""
    /\ injStatus = -1 /\ failedStep = "none" /\ ops = <<>>
InjectInit == ipc = "off" /\ InjectLocals

MainIdle == input = BaseInput /\ RunInit /\ currentPane = "" /\ panes = <<>> /\ InjectInit

(***************************************************************************)
(* SpecEnc                                                                 *)
(***************************************************************************)
InitEnc ==
    /\ encMessage \in SeqsUpTo(Runes, MaxLen)
    /\ encOut = <<>> /\ encDone = FALSE
    /\ IdleIdle /\ CallIdle /\ MainIdle

Encode ==
    /\ ~encDone
    /\ encOut' = messageSendActions(encMessage, enterKey)
    /\ encDone' = TRUE
    /\ UNCHANGED <<encMessage, idleVars, callVars, injVars, mainVars>>

NextEnc == Encode
SpecEnc == InitEnc /\ [][NextEnc]_vars

(***************************************************************************)
(* SpecIdle                                                                *)
(***************************************************************************)
InitIdle ==
    /\ idleSamples \in 1..MaxSamples
    /\ idleCaps \in [1..idleSamples -> CaptureValues]
    /\ idleOut = [allEqual |-> FALSE, baseLen |-> 0] /\ idleDone = FALSE
    /\ roundPc = "off" /\ roundDuration = 0 /\ RoundLocals
    /\ EncIdle /\ CallIdle /\ MainIdle

IdleCompare ==
    /\ ~idleDone
    /\ idleOut' = idleCompare(idleCaps, idleSamples)
    /\ idleDone' = TRUE
    /\ UNCHANGED <<idleSamples, idleCaps, roundVars, encVars, callVars, injVars, mainVars>>

NextIdle == IdleCompare
SpecIdle == InitIdle /\ [][NextIdle]_vars

(***************************************************************************)
(* SpecPick: pickPreferredSendPane on every bounded listing                *)
(***************************************************************************)
InitPick ==
    /\ callArgs \in SeqsUpTo(PickLines, MaxPanes)
    /\ callOut = "" /\ callDone = FALSE
    /\ EncIdle /\ IdleIdle /\ MainIdle

Pick ==
    /\ ~callDone
    /\ callOut' = pickPreferredSendPane(callArgs)
    /\ callDone' = TRUE
    /\ UNCHANGED <<callArgs, encVars, idleVars, injVars, mainVars>>

NextPick == Pick
SpecPick == InitPick /\ [][NextPick]_vars

(***************************************************************************)
(* SpecParse: parseBirdPaneIDs on every bounded listing                    *)
(***************************************************************************)
InitParse ==
    /\ callArgs \in [raw : SeqsUpTo(ParseLines, MaxPanes), commandName : CommandNames]
    /\ callOut = <<>> /\ callDone = FALSE
    /\ EncIdle /\ IdleIdle /\ MainIdle

Parse ==
    /\ ~callDone
    /\ callOut' = parseBirdPaneIDs(callArgs.raw, callArgs.commandName)
    /\ callDone' = TRUE
    /\ UNCHANGED <<callArgs, encVars, idleVars, injVars, mainVars>>

NextParse == Parse
SpecParse == InitParse /\ [][NextParse]_vars

(***************************************************************************)
(* SpecChild: buildChildArgs on every bounded configuration                *)
(***************************************************************************)
InitChild ==
    /\ callArgs \in [timeout : {3, 8}, delay : {0, 3}, session : SessionNames,
                      messages : SeqsUpTo(MessageTexts, MaxMsgs),
                      targetPane : {"%1", "", " "}, verbose : BOOLEAN]
    /\ callOut = <<>> /\ callDone = FALSE
    /\ EncIdle /\ IdleIdle /\ MainIdle

BuildChild ==
    /\ ~callDone
    /\ callOut' = buildChildArgs(callArgs.timeout, callArgs.delay, callArgs.session,
                                 callArgs.messages, callArgs.targetPane, callArgs.verbose)
    /\ callDone' = TRUE
    /\ UNCHANGED <<callArgs, encVars, idleVars, injVars, mainVars>>

NextChild == BuildChild
SpecChild == InitChild /\ [][NextChild]_vars

(***************************************************************************)
(* SpecQuote: shellCommandForExec on every bounded argument list           *)
(***************************************************************************)
InitQuote ==
    /\ callArgs \in [executable : {<<"a">>, <<"a", SP, "a">>},
                      args : SeqsUpTo(SeqsUpTo(QuoteUnits, MaxWord), MaxArgs)]
    /\ callOut = <<>> /\ callDone = FALSE
    /\ EncIdle /\ IdleIdle /\ MainIdle

Quote ==
    /\ ~callDone
    /\ callOut' = shellCommandForExec(callArgs.executable, callArgs.args)
    /\ callDone' = TRUE
    /\ UNCHANGED <<callArgs, encVars, idleVars, injVars, mainVars>>

NextQuote == Quote
SpecQuote == InitQuote /\ [][NextQuote]_vars

(***************************************************************************)
(* SpecInject: the inject branch of run(), main.go:107-146, against the    *)
(* panes of the session.  ipc moves through                                *)
(*   start     main.go:108, os.Executable()                                *)
(*   list      main.go:362, list-panes of tmuxRestartExistingBirdPanes     *)
(*   restart   main.go:368, the range over the panes to restart            *)
(*   belongs   main.go:411, resolveInjectionSendTarget, first query        *)
(*   isInjected main.go:414, second query                                  *)
(*   prefer    main.go:420, tmuxPreferredSendPaneForSession                *)
(*   split     main.go:128-130, build the child command, split-window      *)
(*   mark      main.go:135, tmuxMarkInjectedPane                           *)
(*   teardown  main.go:139, the deferred kill of the invoking pane         *)
(*   exit      run() has returned                                          *)
(* Every tmux command may fail.                                            *)
(***************************************************************************)
MaxSessionPanes == 2     \* most panes of the session when injection starts

PaneIDs == <<"%1", "%2", "%3", "%4">>
OtherSessionPane == "%9"   \* a pane of another session
NewPane == "%5"            \* the identifier split-window gives the new pane
exeBase == "typing-bird"   \* filepath.Base(exePath)

\* A pane: its identifier, whether it is the active one, its options
\* @typing_bird_injected (tag) and @typing_bird_send_target (target), the name
\* of the command running in it, and how it was made: its height in lines (0:
\* as it was), the pane it was split off below, and its command line.
Pane(id, active, tag, cmd) ==
    [id |-> id, active |-> active, tag |-> tag, target |-> "", cmd |-> cmd,
     height |-> 0, below |-> "", command |-> <<>>]
InSession(ps, id) == \E k \in 1..Len(ps) : ps[k].id = id
PaneOf(ps, id) == ps[CHOOSE k \in 1..Len(ps) : ps[k].id = id]
\* what list-panes prints, the empty string after the last newline included
RestartListing(ps) ==
    [k \in 1..Len(ps) |-> <<ps[k].id, ps[k].tag, ps[k].cmd>>] \o << <<"">> >>
PreferListing(ps) ==
    [k \in 1..Len(ps) |-> <<ps[k].id, IF ps[k].active THEN "1" ELSE "0", ps[k].tag>>]
        \o << <<"">> >>
\* the session after kill-pane of id succeeded; when the active pane went, the
\* pane at position a of the rest becomes the active one
KillPane(ps, id, a) ==
    LET rest == SelectSeq(ps, LAMBDA q : q.id # id)
    IN  IF InSession(ps, id) /\ PaneOf(ps, id).active
        THEN [k \in 1..Len(rest) |-> [rest[k] EXCEPT !.active = (k = a)]]
        ELSE rest

InitInject ==
    /\ currentPane \in {"", "%1", "%2", OtherSessionPane}
    /\ \E n \in 1..MaxSessionPanes :
          \E a \in 1..n, tags \in [1..n -> {"", "1"}],
             cmds \in [1..n -> {"bash", "typing-bird"}] :
             panes = [k \in 1..n |-> Pane(PaneIDs[k], k = a, tags[k], cmds[k])]
    /\ ipc = "start" /\ InjectLocals
    /\ EncIdle /\ IdleIdle /\ CallIdle
    /\ input = [BaseInput EXCEPT !.inject = TRUE, !.targetPaneValue = ""] /\ RunInit

InjReturn(status, step) ==
    ipc' = "exit" /\ injStatus' = status /\ failedStep' = step

\* main.go:108-112  exePath, err := os.Executable()
InjExecutable ==
    /\ ipc = "start"
    /\ \/ InjReturn(1, "executable")
       \/ ipc' = "list" /\ UNCHANGED <<injStatus, failedStep>>
    /\ UNCHANGED <<currentPane, panes, restartPanes, restartIdx, skippedCurrentPane,
                   belongs, injected, sendTargetPane, injectedPaneID, ops>>
    /\ UNCHANGED <<encVars, idleVars, callVars, mainVars>>

\* main.go:362-367 and 115-119: list-panes, then parseBirdPaneIDs
InjListPanes ==
    /\ ipc = "list"
    /\ \/ InjReturn(1, "enumerate") /\ UNCHANGED <<restartPanes, restartIdx>>
       \/ /\ panes # <<>>
          /\ restartPanes' = parseBirdPaneIDs(RestartListing(panes), exeBase)
          /\ restartIdx' = 1
          /\ ipc' = "restart"
          /\ UNCHANGED <<injStatus, failedStep>>
    /\ UNCHANGED <<currentPane, panes, skippedCurrentPane, belongs, injected,
                   sendTargetPane, injectedPaneID, ops>>
    /\ UNCHANGED <<encVars, idleVars, callVars, mainVars>>

\* A plausible slip: the invoking pane is restarted like any other.
restartSkipsNever(paneID, current) == FALSE

\* main.go:369  if paneID == currentPane && currentPane != ""
restartSkips(paneID, current) == paneID = current /\ current # ""

\* A plausible slip: the pane is destroyed before the interrupt key is sent.
restartCommandsKillFirst(paneID, sent, killed) ==
    << <<"kill-pane", paneID, killed>>, <<"send-keys C-c", paneID, sent>> >>

\* main.go:373-375: tmuxSendKey(paneID, "C-c", 0), the 150ms sleep, tmuxKillPane(paneID)
restartCommands(paneID, sent, killed) ==
    << <<"send-keys C-c", paneID, sent>>, <<"kill-pane", paneID, killed>> >>

\* main.go:368-376: one pane of the range; the errors of send-keys and
\* kill-pane are discarded
InjRestartPane ==
    /\ ipc = "restart"
    /\ IF restartIdx > Len(restartPanes)
       THEN /\ ipc' = "belongs"
            /\ UNCHANGED <<panes, restartIdx, skippedCurrentPane, ops>>
       ELSE LET paneID == restartPanes[restartIdx]
            IN  /\ restartIdx' = restartIdx + 1
                /\ ipc' = ipc
                /\ IF restartSkips(paneID, currentPane)
                   THEN skippedCurrentPane' = TRUE /\ UNCHANGED <<panes, ops>>
                   ELSE /\ UNCHANGED skippedCurrentPane
                        /\ \E sent, killed \in BOOLEAN :
                              /\ killed => InSession(panes, paneID)
                              /\ ops' = ops \o restartCommands(paneID, sent, killed)
                              /\ IF killed
                                 THEN \E a \in 1..(IF Len(panes) > 1 THEN Len(panes) - 1 ELSE 1) :
                                         panes' = KillPane(panes, paneID, a)
                                 ELSE panes' = panes
    /\ UNCHANGED <<currentPane, restartPanes, belongs, injected, sendTargetPane,
                   injectedPaneID, injStatus, failedStep>>
    /\ UNCHANGED <<encVars, idleVars, callVars, mainVars>>

\* main.go:411-413: display-message #{session_name} for the invoking pane
InjBelongs ==
    /\ ipc = "belongs"
    /\ IF currentPane = ""
       THEN ipc' = "prefer" /\ UNCHANGED belongs
       ELSE \E ans \in {"err", IF InSession(panes, currentPane) THEN "yes" ELSE "no"} :
               /\ belongs' = ans
               /\ ipc' = IF ans = "yes" THEN "isInjected" ELSE "prefer"
    /\ UNCHANGED <<currentPane, panes, restartPanes, restartIdx, skippedCurrentPane,
                   injected, sendTargetPane, injectedPaneID, injStatus, failedStep, ops>>
    /\ UNCHANGED <<encVars, idleVars, callVars, mainVars>>

\* A plausible slip: a failed query counts as "not injected".
returnsCurrentOnError(ans) == ans # "yes"

\* main.go:415  if injErr == nil && !injected { return pane, nil }
returnsCurrent(ans) == ans = "no"

\* main.go:414-417: display-message #{@typing_bird_injected} for the invoking pane
InjIsInjected ==
    /\ ipc = "isInjected"
    /\ \E ans \in {"err", IF PaneOf(panes, currentPane).tag = "1" THEN "yes" ELSE "no"} :
          /\ injected' = ans
          /\ IF returnsCurrent(ans)
             THEN sendTargetPane' = currentPane /\ ipc' = "split"
             ELSE UNCHANGED sendTargetPane /\ ipc' = "prefer"
    /\ UNCHANGED <<currentPane, panes, restartPanes, restartIdx, skippedCurrentPane,
                   belongs, injectedPaneID, injStatus, failedStep, ops>>
    /\ UNCHANGED <<encVars, idleVars, callVars, mainVars>>

\* main.go:420, 431-441 and 121-125: tmuxPreferredSendPaneForSession
InjPrefer ==
    /\ ipc = "prefer"
    /\ \/ InjReturn(1, "resolve") /\ UNCHANGED sendTargetPane
       \/ /\ panes # <<>>
          /\ LET pane == pickPreferredSendPane(PreferListing(panes))
             IN  IF pane # ""
                 THEN /\ sendTargetPane' = pane /\ ipc' = "split"
                      /\ UNCHANGED <<injStatus, failedStep>>
                 ELSE InjReturn(1, "resolve") /\ UNCHANGED sendTargetPane
    /\ UNCHANGED <<currentPane, panes, restartPanes, restartIdx, skippedCurrentPane,
                   belongs, injected, injectedPaneID, ops>>
    /\ UNCHANGED <<encVars, idleVars, callVars, mainVars>>

\* the parent's configuration in an injection run: -t 8s -d 0s, not verbose,
\* the session and two messages, one of them empty
exePath == "/usr/local/bin/typing-bird"
InjSession == "s"
InjMessages == <<"m", "">>
\* a string without quote, space or backslash as the units of the shell quoting
Units(str) == IF str = "" THEN <<>> ELSE <<str>>

\* tmuxSplitBottomPaneArgs(targetPane, shellCommand), main.go:567-581: the
\* options of split-window
tmuxSplitBottomPaneArgs(targetPane, shellCommand) ==
    [v |-> TRUE, d |-> TRUE, l |-> 5, P |-> TRUE, F |-> "#{pane_id}",
     t |-> targetPane, shellCommand |-> shellCommand]

\* what tmux split-window makes of its options: -v puts the new pane below the
\* target -t, -l gives its height, -d keeps the active pane active, the last
\* argument is run by the shell
splitWindow(ps, args) ==
    LET new == [id |-> NewPane, active |-> ~args.d, tag |-> "", target |-> "",
                cmd |-> exeBase, height |-> args.l,
                below |-> IF args.v THEN args.t ELSE "",
                command |-> args.shellCommand]
    IN  Append(IF args.d THEN ps
               ELSE [k \in 1..Len(ps) |-> [ps[k] EXCEPT !.active = FALSE]], new)

\* main.go:127-133 and 583-593: the child command is built (it cannot fail) and
\* split-window runs; it fails, or creates the pane and prints its identifier,
\* or creates the pane and prints nothing, which is an error too
InjSplit ==
    /\ ipc = "split"
    /\ \/ /\ InjReturn(1, "split")
          /\ ops' = Append(ops, <<"split-window", sendTargetPane, FALSE>>)
          /\ UNCHANGED <<panes, injectedPaneID>>
       \/ /\ InSession(panes, sendTargetPane)
          /\ LET childArgs == buildChildArgs(8, 0, InjSession, InjMessages,
                                              sendTargetPane, FALSE)
                 childCommand ==
                     shellCommandForExec(Units(exePath),
                         [k \in 1..Len(childArgs) |-> Units(childArgs[k])])
             IN  panes' = splitWindow(panes,
                              tmuxSplitBottomPaneArgs(sendTargetPane, childCommand))
          /\ ops' = Append(ops, <<"split-window", NewPane, TRUE>>)
          /\ \/ injectedPaneID' = NewPane /\ ipc' = "mark"
                /\ UNCHANGED <<injStatus, failedStep>>
             \/ InjReturn(1, "split") /\ UNCHANGED injectedPaneID
    /\ UNCHANGED <<currentPane, restartPanes, restartIdx, skippedCurrentPane,
                   belongs, injected, sendTargetPane>>
    /\ UNCHANGED <<encVars, idleVars, callVars, mainVars>>

\* the new pane with its provenance tag set
Tagged(ps, id) == [k \in 1..Len(ps) |-> IF ps[k].id = id THEN [ps[k] EXCEPT !.tag = "1"] ELSE ps[k]]

\* the pane with its option @typing_bird_send_target set
TargetTagged(ps, id, value) ==
    [k \in 1..Len(ps) |-> IF ps[k].id = id THEN [ps[k] EXCEPT !.target = value] ELSE ps[k]]

\* A plausible slip: the new pane is recorded as its own send target.
sendTargetTagSelf(paneID, target) == paneID

\* main.go:600  set-option -p -t paneID @typing_bird_send_target sendTargetPane
sendTargetTag(paneID, target) == target

\* A plausible slip: the error of the second set-option is dropped.
markErrorSecondDropped(ok1, ok2) == ~ok1

\* tmuxMarkInjectedPane returns the error of the first set-option that failed
markError(ok1, ok2) == ~ok1 \/ ~ok2

\* main.go:135-138 and 596-604: two set-option commands on the new pane; the
\* first sets the tag, the second runs only when the first succeeded
InjMark ==
    /\ ipc = "mark"
    /\ \E ok1, ok2 \in BOOLEAN :
          /\ ~ok1 => ~ok2
          /\ panes' = IF ok2
                       THEN TargetTagged(Tagged(panes, injectedPaneID), injectedPaneID,
                                         sendTargetTag(injectedPaneID, sendTargetPane))
                       ELSE IF ok1 THEN Tagged(panes, injectedPaneID) ELSE panes
          /\ ops' = ops \o
                (IF ok1
                 THEN << <<"set-option @typing_bird_injected", injectedPaneID, TRUE>>,
                         <<"set-option @typing_bird_send_target", injectedPaneID, ok2>> >>
                 ELSE << <<"set-option @typing_bird_injected", injectedPaneID, FALSE>> >>)
          /\ IF markError(ok1, ok2)
             THEN InjReturn(1, "tag")
             ELSE ipc' = "teardown" /\ UNCHANGED <<injStatus, failedStep>>
    /\ UNCHANGED <<currentPane, restartPanes, restartIdx, skippedCurrentPane,
                   belongs, injected, sendTargetPane, injectedPaneID>>
    /\ UNCHANGED <<encVars, idleVars, callVars, mainVars>>

\* main.go:139-146: the deferred kill of the invoking pane, its error
\* discarded, and return 0
InjTeardown ==
    /\ ipc = "teardown"
    /\ IF skippedCurrentPane /\ currentPane # ""
       THEN \E killed \in BOOLEAN :
               /\ killed => InSession(panes, currentPane)
               /\ ops' = Append(ops, <<"kill-pane", currentPane, killed>>)
               /\ IF killed
                  THEN \E a \in 1..(Len(panes) - 1) : panes' = KillPane(panes, currentPane, a)
                  ELSE panes' = panes
       ELSE UNCHANGED <<panes, ops>>
    /\ InjReturn(0, "none")
    /\ UNCHANGED <<currentPane, restartPanes, restartIdx, skippedCurrentPane,
                   belongs, injected, sendTargetPane, injectedPaneID>>
    /\ UNCHANGED <<encVars, idleVars, callVars, mainVars>>

NextInject ==
    \/ InjExecutable \/ InjListPanes \/ InjRestartPane
    \/ InjBelongs \/ InjIsInjected \/ InjPrefer
    \/ InjSplit \/ InjMark \/ InjTeardown
SpecInject == InitInject /\ [][NextInject]_vars

(***************************************************************************)
(* Spec: run() in dispatch mode.  The main goroutine moves through         *)
(*   start    before anything ran                                          *)
(*   loop     main.go:176, about to call waitForTargetIdle                 *)
(*   wait     main.go:231, the top of the loop of waitForTargetIdle        *)
(*   check    main.go:269, the select before a capture                     *)
(*   capture  main.go:275, tmux capture-pane in flight                     *)
(*   sleep    main.go:281, the sleep between two samples                   *)
(*   exists   main.go:242, tmux display-message in flight                  *)
(*   backoff  main.go:245, the sleep after a failed capture                *)
(*   ret      main.go:177, waitForTargetIdle has returned                  *)
(*   send     main.go:611, tmux send-keys for actions[actionIdx] in flight *)
(*   exit     run() has returned                                           *)
(* An external command is one step: its caller sees nothing until it ends. *)
(***************************************************************************)
Init ==
    /\ input \in Inputs
    /\ RunInit
    /\ EncIdle /\ IdleIdle /\ CallIdle
    /\ currentPane = "" /\ panes = <<>> /\ InjectInit

\* interval := duration / (samples-1), 0 for one sample (main.go:262-265)
interval(samples, duration) ==
    IF samples > 1 THEN duration \div (samples - 1) ELSE 0

\* A plausible slip: a sleep follows the last capture too.
sleepsBetweenAlsoLast(k, samples, intervalD) == intervalD > 0

\* main.go:280  if i < samples-1 && interval > 0
sleepsBetween(k, samples, intervalD) == k < samples - 1 /\ intervalD > 0

\* run() returns status; the deferred stopInterrupts()/cancel() end the process
Exit(status) == pc' = "exit" /\ exitStatus' = status

\* main.go:71-173: flags, arguments, tmux and session checks, the listener,
\* the send target.  Runs with --inject and no --target-pane take the injection
\* branch (main.go:107-146) and are not runs of this specification.
\* A plausible slip: no message is substituted when none was given.
messagesOfNoDefault(args) == Tail(args)

\* main.go:94-97: messages := args[1:]; if len(messages) == 0 { messages = []string{""} }
messagesOf(args) == IF Len(args) > 1 THEN Tail(args) ELSE << <<>> >>

Startup ==
    /\ pc = "start"
    /\ ~(input.inject /\ TrimSpace(input.targetPaneValue) = "")
    /\ LET to == parseDuration(input.timeoutValue, TRUE)
           dl == parseDuration(input.delayValue, FALSE)
           msgs == messagesOf(input.args)
       IN  IF to.err \/ dl.err
              \/ (input.inject /\ TrimSpace(input.targetPaneValue) # "")
              \/ Len(input.args) < 1
           THEN /\ Exit(2)
                /\ UNCHANGED <<messages, timeout, sendTarget, lpc>>
           ELSE IF ~input.tmuxInPath \/ ~input.sessionExists
           THEN /\ Exit(1)
                /\ messages' = msgs /\ timeout' = to.value
                /\ UNCHANGED <<sendTarget, lpc>>
           ELSE /\ messages' = msgs /\ timeout' = to.value
                /\ lpc' = "select"
                /\ IF TrimSpace(input.targetPaneValue) # ""
                   THEN /\ sendTarget' = TrimSpace(input.targetPaneValue)
                        /\ pc' = "loop" /\ UNCHANGED exitStatus
                   ELSE \* tmuxPreferredSendPaneForSession: a pane, or none
                        \E resolved \in {"", "%2"} :
                            IF resolved = ""
                            THEN Exit(1) /\ UNCHANGED sendTarget
                            ELSE /\ sendTarget' = resolved
                                 /\ pc' = "loop" /\ UNCHANGED exitStatus
    /\ UNCHANGED <<input, messageIndex, errReport, waitVars, sendVars, ctxDone, atCancel,
                   sig, lastIsZero, sinceLast, interruptCode, c, targetExists, others>>

\* main.go:176: the next call of waitForTargetIdle
CallWait ==
    /\ pc = "loop"
    /\ Len(dispatched) < MaxSent
    /\ pc' = "wait"
    /\ UNCHANGED <<input, runVars, waitVars, sendVars, ctxDone, atCancel, listenVars, c,
                   targetExists, others>>

\* waitForTargetIdle returns err to run(); cs are the captures of a round
\* that ended idle
WaitReturns(err, cs) ==
    pc' = "ret" /\ waitErr' = err /\ caps' = cs /\ i' = 0 /\ prevRoundLast' = NoCapture

\* A plausible slip: a round starts from the last capture of the round before.
freshCapsCarryLast(last) == IF last = NoCapture THEN <<>> ELSE <<last>>

\* main.go:267  caps := make([][]byte, 0, samples): a round starts with no
\* capture, whatever the round before ended with
freshCaps(last) == <<>>

\* A plausible slip: the poll of ctx.Done() always takes its default branch.
ctxIsDoneNever(done) == FALSE

\* select { case <-ctx.Done(): return ... ; default: }, main.go:231-235 and
\* 269-273: a poll that does not block
ctxIsDone(done) == done

\* main.go:231-237: the select at the top of a round, then the call of
\* idleSamplesTarget up to its loop
WaitTop ==
    /\ pc = "wait"
    /\ IF ctxIsDone(ctxDone)
       THEN WaitReturns("canceled", <<>>)
       ELSE /\ pc' = "check" /\ caps' = freshCaps(prevRoundLast) /\ i' = 0
            /\ UNCHANGED <<waitErr, prevRoundLast>>
    /\ UNCHANGED <<input, runVars, baseLen, idleRounds, sendVars, ctxDone, atCancel,
                   listenVars, c, targetExists, others>>

\* main.go:269-273: the select before each capture
SampleCheck ==
    /\ pc = "check"
    /\ IF ctxIsDone(ctxDone)
       THEN WaitReturns("canceled", <<>>)
       ELSE pc' = "capture" /\ UNCHANGED <<waitErr, i, caps, prevRoundLast>>
    /\ UNCHANGED <<input, runVars, baseLen, idleRounds, sendVars, ctxDone, atCancel,
                   listenVars, c, targetExists, others>>

\* main.go:268 (i++) and 287-298, then main.go:250-253: the next sample, or
\* the end of the round with cs the captures taken
NextSample(cs) ==
    IF i + 1 < defaultIdleSamples
    THEN /\ pc' = "check" /\ i' = i + 1 /\ caps' = cs
         /\ UNCHANGED <<waitErr, baseLen, idleRounds, prevRoundLast>>
    ELSE /\ idleRounds' = IF \A a, b \in 1..Len(cs) : cs[a] = cs[b]
                          THEN idleRounds + 1 ELSE idleRounds
         /\ LET r == idleCompare(cs, defaultIdleSamples)
            IN  IF r.allEqual
                THEN WaitReturns("nil", cs) /\ baseLen' = r.baseLen
                ELSE /\ pc' = "wait" /\ caps' = <<>> /\ i' = 0
                     /\ prevRoundLast' = Last(cs)
                     /\ UNCHANGED <<waitErr, baseLen>>

\* main.go:275-285: tmux capture-pane returns.  It fails when the target is
\* gone and may fail although it exists.
Capture ==
    /\ pc = "capture"
    /\ \/ /\ pc' = "exists" /\ caps' = <<>> /\ i' = 0
          /\ prevRoundLast' = NoCapture
          /\ UNCHANGED <<waitErr, baseLen, idleRounds>>
       \/ /\ targetExists
          /\ \E b \in PaneContents :
                IF sleepsBetween(i, defaultIdleSamples,
                                 interval(defaultIdleSamples, timeout))
                THEN /\ pc' = "sleep" /\ caps' = Append(caps, b)
                     /\ UNCHANGED <<waitErr, baseLen, i, idleRounds, prevRoundLast>>
                ELSE NextSample(Append(caps, b))
    /\ UNCHANGED <<input, runVars, sendVars, ctxDone, atCancel, listenVars, c,
                   targetExists, others>>

\* A plausible slip: time.Sleep(d) in place of the select on ctx.Done().
sleepIgnoringContext(done) == "nil"

\* sleepWithContext(ctx, d) for d > 0, main.go:301-313: whichever of
\* ctx.Done() and the timer comes first
sleepWithContext(done) == IF done THEN "canceled" ELSE "nil"

\* main.go:281-283: the sleep between two samples ends
SampleSleep ==
    /\ pc = "sleep"
    /\ IF sleepWithContext(ctxDone) = "canceled"
       THEN WaitReturns("canceled", <<>>) /\ UNCHANGED <<baseLen, idleRounds>>
       ELSE NextSample(caps)
    /\ UNCHANGED <<input, runVars, sendVars, ctxDone, atCancel, listenVars, c,
                   targetExists, others>>

\* A plausible slip: every failed capture is taken for a lost target.
tmuxTargetExistsNever(exists) == FALSE

\* tmuxTargetExists(target), main.go:315-321: display-message fails iff the
\* target is gone
tmuxTargetExists(exists) == exists

\* main.go:242-244: after a failed capture, is the target still there?
ExistsQuery ==
    /\ pc = "exists"
    /\ IF ~tmuxTargetExists(targetExists)
       THEN WaitReturns("gone", <<>>)
       ELSE pc' = "backoff" /\ UNCHANGED <<waitErr, i, caps, prevRoundLast>>
    /\ UNCHANGED <<input, runVars, baseLen, idleRounds, sendVars, ctxDone, atCancel,
                   listenVars, c, targetExists, others>>

\* main.go:245-248: the 200ms backoff ends, then `continue`
Backoff ==
    /\ pc = "backoff"
    /\ IF sleepWithContext(ctxDone) = "canceled"
       THEN WaitReturns("canceled", <<>>)
       ELSE pc' = "wait" /\ UNCHANGED <<waitErr, i, caps, prevRoundLast>>
    /\ UNCHANGED <<input, runVars, baseLen, idleRounds, sendVars, ctxDone, atCancel,
                   listenVars, c, targetExists, others>>

\* A plausible slip: the stored code is not consulted.
exitOnCancelClean(code) == 0

\* main.go:179-184: code := interruptCode.Load(); the status after a cancellation
exitOnCancel(code) == IF code # 0 THEN code ELSE 0

\* main.go:177-192: run() looks at what waitForTargetIdle returned
AfterWait ==
    /\ pc = "ret"
    /\ CASE waitErr = "canceled" ->
              /\ Exit(exitOnCancel(interruptCode))
              /\ UNCHANGED <<errReport, actions, actionIdx>>
         [] waitErr = "gone" ->
              /\ Exit(1)
              /\ errReport' = [kind |-> "idle", index |-> 0, target |-> sendTarget]
              /\ UNCHANGED <<actions, actionIdx>>
         [] OTHER ->
              /\ actions' = messageSendActions(messages[messageIndex + 1], enterKey)
              /\ actionIdx' = 1
              /\ pc' = "send"
              /\ UNCHANGED <<exitStatus, errReport>>
    /\ UNCHANGED <<input, messages, timeout, sendTarget, messageIndex, waitVars,
                   dispatched, sendFailedAt, ctxDone, atCancel, listenVars, c,
                   targetExists, others>>

\* A plausible slip: the index is advanced without wrapping.
nextIndexNoWrap(index, n) == index + 1

\* messageIndex = (messageIndex + 1) % len(messages), main.go:198
nextIndex(index, n) == (index + 1) % n

\* A plausible slip: the error of a send is dropped and the loop goes on.
sendErrorDropped(ok) == FALSE

\* `if err := tmuxSendLiteral/tmuxSendKey(...); err != nil { return err }`
sendError(ok) == ~ok

\* main.go:611-622 and 192-198: tmux send-keys for one action returns; after
\* the last action the message is done and the index advances
SendAction ==
    /\ pc = "send"
    /\ \E ok \in {TRUE, FALSE} :
          /\ ok => targetExists
          /\ sendFailedAt' = IF ok THEN sendFailedAt ELSE <<messageIndex, actionIdx>>
          /\ IF sendError(ok)
             THEN /\ Exit(1)
                  /\ errReport' = [kind |-> "send", index |-> messageIndex + 1,
                                   target |-> sendTarget]
                  /\ UNCHANGED <<actionIdx, messageIndex, dispatched, baseLen>>
             ELSE IF actionIdx < Len(actions)
             THEN /\ actionIdx' = actionIdx + 1
                  /\ UNCHANGED <<pc, exitStatus, errReport, messageIndex,
                                 dispatched, baseLen>>
             ELSE /\ messageIndex' = nextIndex(messageIndex, Len(messages))
                  /\ dispatched' = Append(dispatched, messageIndex)
                  /\ pc' = "loop" /\ baseLen' = 0
                  /\ UNCHANGED <<actionIdx, exitStatus, errReport>>
    /\ UNCHANGED <<input, messages, timeout, sendTarget, waitErr, i, caps,
                   idleRounds, prevRoundLast, actions, ctxDone, atCancel, listenVars, c,
                   targetExists, others>>

(***************************************************************************)
(* The environment: the pane goes away, signals arrive.                    *)
(***************************************************************************)
Running == pc \notin {"start", "exit"}

PaneVanishes ==
    /\ Running /\ targetExists
    /\ targetExists' = FALSE
    /\ UNCHANGED <<input, pc, runVars, waitVars, sendVars, ctxDone, atCancel, listenVars, c,
                   others>>

\* signal.Notify(c, os.Interrupt, syscall.SIGTERM): a signal is put on c, or
\* dropped when c is full
SignalArrives ==
    /\ Running
    /\ \E s \in {SIGINT, SIGTERM} :
          c' = IF Len(c) < signalBuffer THEN Append(c, s) ELSE c
    /\ UNCHANGED <<input, pc, runVars, waitVars, sendVars, ctxDone, atCancel, listenVars,
                   targetExists, others>>

(***************************************************************************)
(* The listener goroutine of installInterruptHandlers, main.go:519-551:    *)
(*   off       not started                                                 *)
(*   select    main.go:521, waiting for a signal                           *)
(*   inform    main.go:541, printing the restart hint                      *)
(*   store     main.go:531/537, about to store the exit code               *)
(*   cancel    main.go:532/538, about to cancel                            *)
(*   returned  the goroutine has returned                                  *)
(***************************************************************************)
\* A plausible slip: any interrupt after a recorded one exits.
withinWindowAnySecond(isZero, d) == ~isZero

\* A plausible slip: `<` in place of `<=`.
withinWindowStrict(isZero, d) == ~isZero /\ d < interruptWindow

\* !last.IsZero() && now.Sub(last) <= window
withinWindow(isZero, d) == ~isZero /\ d <= interruptWindow

\* main.go:524-540: a signal is received, now := time.Now(); for an interrupt
\* d is now.Sub(last) (more than the window when last is the zero time)
ListenReceive ==
    /\ lpc = "select" /\ pc # "exit"
    /\ c # <<>>
    /\ sig' = Head(c) /\ c' = Tail(c)
    /\ IF Head(c) = SIGTERM
       THEN lpc' = "store" /\ UNCHANGED sinceLast
       ELSE \E d \in 0..(interruptWindow + 1) :
               /\ lastIsZero => d = interruptWindow + 1
               /\ sinceLast' = d
               /\ lpc' = IF withinWindow(lastIsZero, d) THEN "store" ELSE "inform"
    /\ UNCHANGED <<input, pc, runVars, waitVars, sendVars, ctxDone, atCancel, lastIsZero,
                   interruptCode, targetExists, others>>

\* main.go:541-548: the hint is printed, last = now
ListenInform ==
    /\ lpc = "inform" /\ pc # "exit"
    /\ lastIsZero' = FALSE /\ sinceLast' = 0
    /\ lpc' = "select"
    /\ UNCHANGED <<input, pc, runVars, waitVars, sendVars, ctxDone, atCancel, sig,
                   interruptCode, c, targetExists, others>>

\* exitCode.Store(143) / exitCode.Store(130)
ListenStore ==
    /\ lpc = "store" /\ pc # "exit"
    /\ interruptCode' = IF sig = SIGTERM THEN 143 ELSE 130
    /\ lpc' = "cancel"
    /\ UNCHANGED <<input, pc, runVars, waitVars, sendVars, ctxDone, atCancel, sig,
                   lastIsZero, sinceLast, c, targetExists, others>>

\* A plausible slip: the goroutine goes on receiving after cancel().
afterCancelKeepsListening(s) == "select"

\* main.go:533 and 539: `return` after cancel(), whatever the signal s was
afterCancel(s) == "returned"

\* cancel(); return (the locals of the goroutine are gone)
ListenCancel ==
    /\ lpc = "cancel" /\ pc # "exit"
    /\ ctxDone' = TRUE
    /\ atCancel' = [sent |-> Len(dispatched), pc |-> pc, i |-> i, waitErr |-> waitErr]
    /\ lpc' = afterCancel(sig) /\ sinceLast' = 0
    /\ UNCHANGED <<input, pc, runVars, waitVars, sendVars, sig, lastIsZero,
                   interruptCode, c, targetExists, others>>

Next ==
    \/ Startup \/ CallWait \/ WaitTop \/ SampleCheck \/ Capture \/ SampleSleep
    \/ ExistsQuery \/ Backoff \/ AfterWait \/ SendAction
    \/ PaneVanishes \/ SignalArrives
    \/ ListenReceive \/ ListenInform \/ ListenStore \/ ListenCancel

Spec == Init /\ [][Next]_vars

(***************************************************************************)
(* SpecLive: the runs of Spec that go on for ever, for the liveness of the *)
(* loop.  The main goroutine is scheduled again and again (weak fairness   *)
(* of its steps); the listener and the environment may act or not.         *)
(* `dispatched` and `idleRounds` record the past and would grow without    *)
(* bound: TrimLog empties them when the bound of Spec is reached, which    *)
(* changes nothing the program reads.                                      *)
(***************************************************************************)
InitLive ==
    /\ Init
    /\ input \in {[BaseInput EXCEPT !.timeoutValue = Dur(3)],
                  [BaseInput EXCEPT !.args = ThreeMessages]}

\* the steps of the main goroutine, main.go:58-199
MainStep ==
    \/ Startup \/ CallWait \/ WaitTop \/ SampleCheck \/ Capture \/ SampleSleep
    \/ ExistsQuery \/ Backoff \/ AfterWait \/ SendAction

TrimLog ==
    /\ pc = "loop" /\ Len(dispatched) = MaxSent
    /\ dispatched' = <<>> /\ idleRounds' = 0
    /\ atCancel' = IF atCancel = NoCancel THEN atCancel ELSE [atCancel EXCEPT !.sent = 0]
    /\ UNCHANGED <<input, pc, runVars, waitErr, baseLen, i, caps, prevRoundLast,
                   actions, actionIdx, sendFailedAt, ctxDone, listenVars, c,
                   targetExists, others>>

NextLive == Next \/ TrimLog
SpecLive == InitLive /\ [][NextLive]_vars /\ WF_vars(MainStep \/ TrimLog)

(***************************************************************************)
(* SpecRound: one call of idleSamplesTarget(ctx, target, samples,          *)
(* duration), main.go:258-299, for every sample count and the durations    *)
(* of the model.  It moves through                                         *)
(*   start    main.go:259, the call                                        *)
(*   check    main.go:269, the select before a capture                     *)
(*   capture  main.go:275, tmux capture-pane in flight                     *)
(*   sleep    main.go:281, the sleep between two samples                   *)
(*   done     it has returned                                              *)
(***************************************************************************)
InitRound ==
    /\ idleSamples \in 0..MaxSamples
    /\ roundDuration \in {3, 8}
    /\ roundPc = "start" /\ RoundLocals
    /\ idleCaps = <<>> /\ idleDone = FALSE
    /\ idleOut = [allEqual |-> FALSE, baseLen |-> 0]
    /\ EncIdle /\ CallIdle /\ MainIdle

RoundReturns(err) == roundPc' = "done" /\ roundErr' = err

\* main.go:259-268: the check of samples, the interval, the empty caps
RoundStart ==
    /\ roundPc = "start"
    /\ IF idleSamples < 1
       THEN RoundReturns("samples")
       ELSE roundPc' = "check" /\ UNCHANGED roundErr
    /\ UNCHANGED <<idleSamples, idleCaps, idleOut, idleDone, roundDuration, roundI,
                   roundSleeps, roundCtx>>
    /\ UNCHANGED <<encVars, callVars, injVars, mainVars>>

\* main.go:269-273: the select before each capture
RoundCheck ==
    /\ roundPc = "check"
    /\ IF ctxIsDone(roundCtx)
       THEN RoundReturns("canceled")
       ELSE roundPc' = "capture" /\ UNCHANGED roundErr
    /\ UNCHANGED <<idleSamples, idleCaps, idleOut, idleDone, roundDuration, roundI,
                   roundSleeps, roundCtx>>
    /\ UNCHANGED <<encVars, callVars, injVars, mainVars>>

\* main.go:268 (i++) and 287-298: the next sample, or the comparison of the
\* captures cs and the return
RoundNext(cs) ==
    IF roundI + 1 < idleSamples
    THEN /\ roundPc' = "check" /\ roundI' = roundI + 1
         /\ UNCHANGED <<idleOut, idleDone, roundErr>>
    ELSE /\ idleOut' = idleCompare(cs, idleSamples) /\ idleDone' = TRUE
         /\ RoundReturns("nil") /\ roundI' = roundI + 1

\* main.go:275-285: tmux capture-pane returns, with an error or with b
RoundCapture ==
    /\ roundPc = "capture"
    /\ \/ /\ RoundReturns("capture")
          /\ UNCHANGED <<idleCaps, idleOut, idleDone, roundI>>
       \/ \E b \in PaneContents :
             /\ idleCaps' = Append(idleCaps, b)
             /\ IF sleepsBetween(roundI, idleSamples, interval(idleSamples, roundDuration))
                THEN /\ roundPc' = "sleep"
                     /\ UNCHANGED <<idleOut, idleDone, roundI, roundErr>>
                ELSE RoundNext(Append(idleCaps, b))
    /\ UNCHANGED <<idleSamples, roundDuration, roundSleeps, roundCtx>>
    /\ UNCHANGED <<encVars, callVars, injVars, mainVars>>

\* main.go:281-283: sleepWithContext(ctx, interval) returns
RoundSleep ==
    /\ roundPc = "sleep"
    /\ IF sleepWithContext(roundCtx) = "canceled"
       THEN /\ RoundReturns("canceled")
            /\ UNCHANGED <<idleOut, idleDone, roundI, roundSleeps>>
       ELSE /\ roundSleeps' =
                   Append(roundSleeps, interval(idleSamples, roundDuration))
            /\ RoundNext(idleCaps)
    /\ UNCHANGED <<idleSamples, idleCaps, roundDuration, roundCtx>>
    /\ UNCHANGED <<encVars, callVars, injVars, mainVars>>

\* the caller's context is cancelled while the call runs
RoundCancel ==
    /\ roundPc \in {"check", "capture", "sleep"} /\ ~roundCtx
    /\ roundCtx' = TRUE
    /\ UNCHANGED <<idleSamples, idleCaps, idleOut, idleDone, roundPc, roundDuration,
                   roundI, roundSleeps, roundErr>>
    /\ UNCHANGED <<encVars, callVars, injVars, mainVars>>

NextRound == RoundStart \/ RoundCheck \/ RoundCapture \/ RoundSleep \/ RoundCancel
SpecRound == InitRound /\ [][NextRound]_vars

(***************************************************************************)
(* Properties of the dispatch loop and the listener (Spec).                *)
(***************************************************************************)
AllIdentical(cs) == \A a \in 1..Len(cs) : \A b \in 1..Len(cs) : cs[a] = cs[b]

\* waitForTargetIdle has returned success, or its message is being sent
Dispatching == pc = "send" \/ (pc = "ret" /\ waitErr = "nil")

\* C1: a message is dispatched only after waitForTargetIdle returned success on
\* a round whose defaultIdleSamples captures were all identical; every dispatch
\* has a completed all-equal round of its own, so no action is sent after a
\* round with a differing capture until a later round is all-equal.
C1_DispatchOnlyAfterIdleRound ==
    /\ Dispatching =>
          /\ Len(caps) = defaultIdleSamples
          /\ AllIdentical(caps)
          /\ idleRounds = Len(dispatched) + 1
    /\ Len(dispatched) <= idleRounds
    /\ (~Dispatching /\ sendFailedAt = <<>>) => idleRounds = Len(dispatched)

C1_Witness ==
    /\ pc = "send" /\ Len(dispatched) = 1 /\ idleRounds = 2
    /\ actionIdx = Len(actions)

\* C3: the message index stays in [0, len(messages)); it starts at 0 and changes
\* only when a message has been dispatched in full, then by one modulo
\* len(messages); the k-th dispatched message is messages[k mod len(messages)].
C3_IndexInRange ==
    sendTarget # "" =>       \* the loop was entered
        /\ Len(messages) >= 1
        /\ messageIndex \in 0..(Len(messages) - 1)
        /\ messageIndex = Len(dispatched) % Len(messages)
        /\ \A k \in 1..Len(dispatched) : dispatched[k] = (k - 1) % Len(messages)

C3_IndexStep ==
    /\ dispatched' # dispatched =>
          /\ pc = "send" /\ actionIdx = Len(actions) /\ pc' = "loop"
          /\ dispatched' = Append(dispatched, messageIndex)
          /\ messageIndex' = (messageIndex + 1) % Len(messages)
    /\ messageIndex' # messageIndex => dispatched' # dispatched

\* C3 (whole claim): the index starts at 0, stays in range in every state of
\* the loop and moves only by the wrap-around step after a full dispatch.
C3_IndexCycles == (pc = "start" /\ messageIndex = 0) /\ []C3_IndexInRange /\ [][C3_IndexStep]_vars

C3_Witness ==
    /\ Len(messages) = 3 /\ dispatched = <<0, 1, 2>> /\ messageIndex = 0

\* C4: after a failed capture waitForTargetIdle returns its fatal error only
\* when the target is gone, and then at once; while the target exists it goes
\* to the backoff and from there to a fresh round (or returns Canceled), so a
\* failed capture of an existing target never ends run().
C4_FatalOnlyWhenGone ==
    /\ waitErr = "gone" => ~targetExists
    /\ errReport.kind = "idle" => (~targetExists /\ pc = "exit" /\ exitStatus = 1)
    /\ (pc = "exit" /\ exitStatus = 1 /\ waitErr # "gone") =>
          \/ sendFailedAt # <<>>
          \/ (i = 0 /\ caps = <<>> /\ dispatched = <<>> /\ idleRounds = 0)

C4_ExistsStep ==
    /\ (pc = "exists" /\ pc' # pc) =>
          IF targetExists
          THEN pc' = "backoff"
          ELSE pc' = "ret" /\ waitErr' = "gone"
    /\ (pc = "backoff" /\ pc' # pc) =>
          \/ pc' = "wait" /\ caps' = <<>> /\ i' = 0 /\ ~ctxDone
          \/ pc' = "ret" /\ waitErr' = "canceled" /\ ctxDone
    /\ (pc = "wait" /\ pc' = "check") => (caps' = <<>> /\ i' = 0)
    /\ (pc = "capture" /\ pc' = "exists") => (caps' = <<>> /\ i' = 0)

InWait == pc \in {"wait", "check", "capture", "sleep", "exists", "backoff"}

\* C5 as stated: cancellation is observed at the top of a round, before each
\* capture and in both sleeps, and once it is signalled waitForTargetIdle
\* returns context.Canceled after at most the call in flight.
C5_Original_Step ==
    /\ (ctxDone /\ pc \in {"wait", "check", "sleep", "backoff"} /\ pc' # pc) =>
          (pc' = "ret" /\ waitErr' = "canceled")
    /\ (ctxDone /\ InWait /\ pc' = "ret") => waitErr' = "canceled"
    /\ (ctxDone /\ pc = "capture" /\ pc' # pc) => pc' \notin {"exists", "capture"}

C5_Amended_Step ==
    /\ (ctxDone /\ pc \in {"wait", "check", "sleep", "backoff"} /\ pc' # pc) =>
          (pc' = "ret" /\ waitErr' = "canceled")
    /\ (ctxDone /\ InWait /\ pc' = "ret") =>
          \/ waitErr' = "canceled"
          \/ /\ waitErr' = "nil" /\ pc = "capture" /\ i = defaultIdleSamples - 1
             /\ Len(caps') = defaultIdleSamples /\ AllIdentical(caps')
          \/ waitErr' = "gone" /\ pc = "exists" /\ ~targetExists
    /\ (ctxDone /\ pc = "capture" /\ pc' # pc) =>
          pc' \in {"sleep", "check", "wait", "exists", "ret"}
    /\ (ctxDone /\ pc = "exists" /\ pc' # pc) => pc' \in {"backoff", "ret"}

ConfigError(in) ==
    \/ ~in.timeoutValue.parses \/ in.timeoutValue.value <= 0
    \/ ~in.delayValue.parses \/ in.delayValue.value < 0
    \/ (in.inject /\ in.targetPaneValue # "")
    \/ in.args = <<>>

\* C6: when a dispatch run has ended its status is 2 exactly for a configuration
\* or usage error, 143 exactly for a cancellation by SIGTERM, 130 exactly for a
\* cancellation by a second interrupt, 0 exactly for a cancellation that stored
\* no code, and 1 for a lost target, a failed send or a failed startup check;
\* there is no other status.  (Only the listener cancels, and it stores its
\* code first, so the status-0 case has no run that produces it.)
C6_ExitStatusByCause ==
    pc = "exit" =>
        /\ exitStatus \in {0, 1, 2, 130, 143}
        /\ exitStatus = 2 <=> ConfigError(input)
        /\ exitStatus = 143 <=>
              (waitErr = "canceled" /\ lpc = "returned" /\ sig = SIGTERM)
        /\ exitStatus = 130 <=>
              (waitErr = "canceled" /\ lpc = "returned" /\ sig = SIGINT /\ ~lastIsZero)
        /\ exitStatus = 0 <=> (waitErr = "canceled" /\ lpc # "returned")
        /\ (waitErr = "gone" \/ sendFailedAt # <<>>) => exitStatus = 1
        /\ exitStatus = 1 =>
              \/ waitErr = "gone" \/ sendFailedAt # <<>>
              \/ ~input.tmuxInPath \/ ~input.sessionExists
              \/ (input.targetPaneValue = "" /\ sendTarget = "")

C6_Witness == pc = "exit" /\ exitStatus = 130 /\ Len(dispatched) = 1

\* C7: the first interrupt received only informs and records its time; an
\* interrupt received at most interruptWindow after the recorded one stores 130
\* and cancels; a SIGTERM stores 143 and cancels whatever came before; nothing
\* else cancels.
C7_ListenerState ==
    /\ (lpc \in {"store", "cancel"} /\ sig = SIGINT) =>
          (~lastIsZero /\ sinceLast <= interruptWindow)
    /\ lpc = "inform" => (sig = SIGINT /\ (lastIsZero \/ sinceLast > interruptWindow))
    /\ lpc \in {"cancel", "returned"} =>
          interruptCode = (IF sig = SIGTERM THEN 143 ELSE 130)
    /\ lpc \in {"off", "select", "inform", "store"} => interruptCode = 0
    /\ ctxDone <=> lpc = "returned"
    /\ (lpc = "returned" /\ sig = SIGINT) => ~lastIsZero

C7_ListenerStep ==
    /\ (lpc = "select" /\ lpc' # lpc) =>
          /\ c # <<>> /\ sig' = Head(c)
          /\ (Head(c) = SIGTERM) => lpc' = "store"
          /\ (Head(c) = SIGINT /\ lastIsZero) => lpc' = "inform"
          /\ (Head(c) = SIGINT /\ ~lastIsZero /\ sinceLast' <= interruptWindow)
                => lpc' = "store"
          /\ (Head(c) = SIGINT /\ ~lastIsZero /\ sinceLast' > interruptWindow)
                => lpc' = "inform"
          /\ UNCHANGED <<ctxDone, interruptCode, lastIsZero>>
    /\ (lpc = "inform" /\ lpc' # lpc) =>
          (lpc' = "select" /\ ~lastIsZero' /\ UNCHANGED <<ctxDone, interruptCode>>)
    /\ (lpc = "store" /\ lpc' # lpc) => (lpc' = "cancel" /\ ~ctxDone')
    /\ (lpc = "cancel" /\ lpc' # lpc) => (lpc' = "returned" /\ ctxDone')

\* C7 (whole claim): the listener's recorded state and each of its steps follow
\* the inform / 130 / 143 rule.
C7_InterruptEscalation == []C7_ListenerState /\ [][C7_ListenerStep]_vars

C7_Witness ==
    lpc = "store" /\ sig = SIGINT /\ sinceLast = interruptWindow /\ pc = "send"

\* C8: once a send has failed nothing more is sent and nothing moves: run() has
\* returned 1 and reported that message's index and the target, the index was
\* not advanced, no later action was sent and no round was started.
C8_AfterFailure ==
    sendFailedAt # <<>> =>
        /\ pc = "exit" /\ exitStatus = 1
        /\ errReport = [kind |-> "send", index |-> sendFailedAt[1] + 1,
                        target |-> sendTarget]
        /\ messageIndex = sendFailedAt[1]
        /\ actionIdx = sendFailedAt[2]
        /\ messageIndex = Len(dispatched) % Len(messages)
        /\ waitErr = "nil" /\ idleRounds = Len(dispatched) + 1

C8_FailureStep ==
    sendFailedAt # <<>> =>
        UNCHANGED <<pc, exitStatus, errReport, messageIndex, actionIdx, dispatched,
                    caps, i, idleRounds, sendFailedAt>>

\* C8 (whole claim): a failed send ends run() with status 1 in that very step
\* and the state of the dispatch loop is frozen from then on.
C8_SendFailureFatal == []C8_AfterFailure /\ [][C8_FailureStep]_vars

C8_Witness ==
    /\ pc = "exit" /\ sendFailedAt = <<0, 3>> /\ Len(actions) = 4 /\ targetExists

(***************************************************************************)
(* Properties of the idle comparison (SpecIdle).                           *)
(***************************************************************************)
\* C2: for every sample count N >= 1 and every N successful captures, the round
\* is reported idle exactly when all N captures are identical, and the length
\* returned is the length of the first capture, which an idle round shares.
C2_IdleIffAllIdentical ==
    idleDone =>
        /\ idleOut.allEqual <=> AllIdentical(idleCaps)
        /\ idleOut.baseLen = Len(idleCaps[1])
        /\ idleOut.allEqual => \A k \in 1..idleSamples : Len(idleCaps[k]) = idleOut.baseLen

C2_Witness ==
    /\ idleDone /\ idleSamples = defaultIdleSamples
    /\ idleOut.allEqual /\ idleOut.baseLen = 2

(***************************************************************************)
(* Properties of the message encoder (SpecEnc).                            *)
(***************************************************************************)
IsTerminatorRune(r) == r = CR \/ r = LF

\* C9: the encoding of every message is non-empty and ends with a key press of
\* the activation key; that key press is one more than what the message itself
\* produced: before it stands a key press when the message ended in a line
\* terminator, a literal when it ended in another rune, nothing when it was empty.
C9_EndsWithFinalKey ==
    encDone =>
        /\ Len(encOut) >= 1
        /\ Last(encOut) = sendAction(enterKey, FALSE)
        /\ LET pre == Front(encOut)
           IN  /\ encMessage = <<>> => pre = <<>>
               /\ (encMessage # <<>> /\ IsTerminatorRune(Last(encMessage)))
                    => (pre # <<>> /\ ~Last(pre).literal)
               /\ (encMessage # <<>> /\ ~IsTerminatorRune(Last(encMessage)))
                    => (pre # <<>> /\ Last(pre).literal)

C9_Witness ==
    /\ encDone /\ encMessage = <<"a", LF>>
    /\ encOut = <<sendAction(<<"a">>, TRUE), sendAction(enterKey, FALSE),
                  sendAction(enterKey, FALSE)>>

\* where a line terminator of m starts: a CR, or an LF that no CR precedes
TermStarts(m) ==
    {k \in 1..Len(m) : m[k] = CR \/ (m[k] = LF /\ (k = 1 \/ m[k - 1] # CR))}
\* where the terminator starting at k ends: a CR takes the LF after it
TermEnd(m, k) == IF m[k] = CR /\ k < Len(m) /\ m[k + 1] = LF THEN k + 1 ELSE k
KeyPositions(out) == {j \in 1..Len(out) : ~out[j].literal}
\* the n-th smallest member of a set of numbers
Nth(S, n) == CHOOSE x \in S : Cardinality({y \in S : y < x}) = n - 1

\* C10: the encoding holds one key press per line terminator of the message
\* (CR, CRLF counted once, or a lone LF) plus the final one, and terminators
\* with no rune between them give key presses with no action between them.
C10_KeyPerTerminator ==
    encDone =>
        LET m == encMessage
            terms == TermStarts(m) \cup {Len(m) + 1}   \* with the implicit final one
            keys == KeyPositions(encOut)
            n == Cardinality(terms)
        IN  /\ Cardinality(keys) = Cardinality(TermStarts(m)) + 1
            /\ \A k \in keys : encOut[k].value = enterKey
            /\ Cardinality(keys) = n =>
                 \A t \in 1..(n - 1) :
                    (Nth(terms, t + 1) = TermEnd(m, Nth(terms, t)) + 1)
                        <=> (Nth(keys, t + 1) = Nth(keys, t) + 1)

C10_Witness ==
    /\ encDone /\ encMessage = <<CR, LF, LF, "a">>
    /\ encOut = <<sendAction(enterKey, FALSE), sendAction(enterKey, FALSE),
                  sendAction(<<"a">>, TRUE), sendAction(enterKey, FALSE)>>

RECURSIVE LiteralText(_)
\* the values of the literal actions of out, joined in order
LiteralText(out) ==
    IF out = <<>> THEN <<>>
    ELSE (IF out[1].literal THEN out[1].value ELSE <<>>) \o LiteralText(Tail(out))
\* m without its CR and LF
StripTerminators(m) == SelectSeq(m, LAMBDA r : ~IsTerminatorRune(r))
\* no literal is empty or holds a CR or LF, and no two literals are adjacent
LiteralsWellFormed(out) ==
    /\ \A j \in 1..Len(out) :
          out[j].literal =>
              /\ out[j].value # <<>>
              /\ \A k \in 1..Len(out[j].value) : ~IsTerminatorRune(out[j].value[k])
    /\ \A j \in 1..(Len(out) - 1) : ~(out[j].literal /\ out[j + 1].literal)

\* C11: the literal actions of the encoding, joined in order, are the message
\* with every CR and LF removed; no literal is empty or holds a CR or LF, and
\* no two literals are adjacent.
C11_LiteralsSpellMessage ==
    encDone =>
        /\ LiteralText(encOut) = StripTerminators(encMessage)
        /\ LiteralsWellFormed(encOut)

\* What the encoder does guarantee: the literals spell the message as the range
\* loop decoded it, so the claim holds of every well-formed UTF-8 message.
LiteralsSpellDecodedMessage ==
    encDone =>
        /\ LiteralText(encOut)
              = StripTerminators([k \in 1..Len(encMessage) |-> decodeRune(encMessage[k])])
        /\ LiteralsWellFormed(encOut)

(***************************************************************************)
(* Properties of the pane functions.                                       *)
(***************************************************************************)
\* line k of a listing names a pane that is not tagged injected
NonInjectedAt(raw, k) ==
    /\ Len(raw[k]) >= 3
    /\ TrimSpace(raw[k][1]) # ""
    /\ TrimSpace(raw[k][3]) # "1"
ActiveAt(raw, k) == NonInjectedAt(raw, k) /\ TrimSpace(raw[k][2]) = "1"
\* the smallest member of a non-empty set of positions
MinOf(S) == CHOOSE x \in S : \A y \in S : x <= y
\* the preference rule, stated by position: the first active non-injected line,
\* else the first non-injected line, else 0
PreferredPosition(raw) ==
    LET act == {k \in 1..Len(raw) : ActiveAt(raw, k)}
        non == {k \in 1..Len(raw) : NonInjectedAt(raw, k)}
    IN  IF act # {} THEN MinOf(act) ELSE IF non # {} THEN MinOf(non) ELSE 0

\* C12: pickPreferredSendPane returns the pane of the first line, in listing
\* order, that is active and not tagged injected; failing that, of the first
\* line not tagged injected; failing that, nothing.  The position alone decides,
\* and the line chosen is never tagged injected.
C12_PickByPosition ==
    callDone =>
        LET k == PreferredPosition(callArgs)
        IN  /\ k = 0 => callOut = ""
            /\ k # 0 => /\ callOut = TrimSpace(callArgs[k][1])
                        /\ callOut # ""
                        /\ TrimSpace(callArgs[k][3]) # "1"

C12_Witness ==
    /\ callDone
    /\ callArgs = << <<"%1", "1", "1">>, <<"%2", "0", "">> >>
    /\ callOut = "%2"

\* line k of a restart listing names a pane the scan is to select: it has an
\* identifier and is tagged injected or runs the tool under either name
SelectedAt(raw, k, commandName) ==
    /\ Len(raw[k]) >= 3
    /\ TrimSpace(raw[k][1]) # ""
    /\ \/ TrimSpace(raw[k][2]) = "1"
       \/ TrimSpace(raw[k][3]) = commandName
       \/ TrimSpace(raw[k][3]) = "typing-bird"
\* the selected lines that are the first to name their pane
FirstSelected(raw, commandName) ==
    {k \in 1..Len(raw) :
        /\ SelectedAt(raw, k, commandName)
        /\ \A j \in 1..(k - 1) :
              SelectedAt(raw, j, commandName)
                  => TrimSpace(raw[j][1]) # TrimSpace(raw[k][1])}

\* C16: parseBirdPaneIDs returns exactly the panes with an identifier that are
\* tagged injected or run the tool (under the executable's base name or as
\* typing-bird), each once, in the listing order of their first occurrence; a
\* pane that is untagged and runs another command is not in the result.
C16_RestartScan ==
    callDone =>
        LET raw == callArgs.raw
            firsts == FirstSelected(raw, callArgs.commandName)
        IN  /\ Len(callOut) = Cardinality(firsts)
            /\ \A n \in 1..Len(callOut) :
                  callOut[n] = TrimSpace(raw[Nth(firsts, n)][1])
            /\ \A m, n \in 1..Len(callOut) : callOut[m] = callOut[n] => m = n
            /\ \A k \in 1..Len(raw) :
                  (/\ Len(raw[k]) >= 3
                   /\ TrimSpace(raw[k][2]) # "1"
                   /\ TrimSpace(raw[k][3]) \notin {callArgs.commandName, "typing-bird"}
                   /\ ~\E j \in 1..Len(raw) :
                         j # k /\ Len(raw[j]) >= 3
                              /\ TrimSpace(raw[j][1]) = TrimSpace(raw[k][1]))
                      => ~Seen(callOut, TrimSpace(raw[k][1]))

C16_Witness ==
    /\ callDone /\ callArgs.commandName = "tb"
    /\ callArgs.raw = << <<"%2", "", "tb">>, <<"%1", "1", "bash">>, <<"%2", "1", "bash">> >>
    /\ callOut = <<"%2", "%1">>

(***************************************************************************)
(* Properties of the inject branch (SpecInject).                           *)
(***************************************************************************)
\* the two queries were made and said: of this session, not tagged injected
Direct == currentPane # "" /\ belongs = "yes" /\ injected = "no"
Resolved == ipc = "split"

\* C13 as stated: the resolved target is the invoking pane if and only if the
\* pane is known, of the session and not tagged injected; otherwise it is what
\* the preference rule returns.
C13_Original ==
    Resolved =>
        /\ (sendTargetPane = currentPane) <=> Direct
        /\ ~Direct => sendTargetPane = pickPreferredSendPane(PreferListing(panes))

\* C13 amended: when both queries answered "of the session" and "not tagged",
\* the resolved target is the invoking pane; in every other case it is exactly
\* what the preference rule returns on the session's listing (which may be the
\* invoking pane again), and resolution fails only in those other cases.
C13_ResolveTarget ==
    /\ Resolved =>
          /\ Direct => sendTargetPane = currentPane
          /\ ~Direct => /\ sendTargetPane = pickPreferredSendPane(PreferListing(panes))
                        /\ sendTargetPane # ""
    /\ failedStep = "resolve" => ~Direct

C13_Witness ==
    /\ Resolved /\ currentPane = "%1" /\ belongs = "yes" /\ injected = "yes"
    /\ sendTargetPane = "%2"

\* the commands of ops that interrupt or destroy the invoking pane
HitsCurrent(k) ==
    /\ currentPane # ""
    /\ ops[k][2] = currentPane
    /\ ops[k][1] \in {"send-keys C-c", "kill-pane"}

\* C14: the invoking pane, when the restart scan selected it, is neither
\* interrupted nor destroyed in the restart pass; it is destroyed only after
\* the new pane was created (and tagged), and never when creating it failed.
C14_LateTeardown ==
    /\ \A k \in 1..Len(ops) :
          HitsCurrent(k) =>
              /\ ops[k][1] = "kill-pane"
              /\ k = Len(ops) /\ ipc = "exit"
              /\ injectedPaneID = NewPane
              /\ \E j \in 1..(k - 1) : ops[j] = <<"split-window", NewPane, TRUE>>
    /\ (skippedCurrentPane /\ ipc # "exit") => InSession(panes, currentPane)
    /\ (skippedCurrentPane /\ failedStep # "none") =>
          (InSession(panes, currentPane) /\ \A k \in 1..Len(ops) : ~HitsCurrent(k))

C14_Witness ==
    /\ ipc = "exit" /\ skippedCurrentPane /\ currentPane = "%1"
    /\ ops = << <<"send-keys C-c", "%2", TRUE>>, <<"kill-pane", "%2", TRUE>>,
                <<"split-window", NewPane, TRUE>>,
                <<"set-option @typing_bird_injected", NewPane, TRUE>>,
                <<"set-option @typing_bird_send_target", NewPane, TRUE>>,
                <<"kill-pane", "%1", TRUE>> >>
    /\ ~InSession(panes, "%1")

\* the commands whose failure run() or tmuxMarkInjectedPane returns
IsFatalCommand(cmd) ==
    cmd \in {"split-window", "set-option @typing_bird_injected",
             "set-option @typing_bird_send_target"}
OpsOfKind(kinds) == {k \in 1..Len(ops) : ops[k][1] \in kinds}
\* what the commands that succeeded did is still there
NothingRolledBack ==
    \A k \in 1..Len(ops) :
        /\ (ops[k][1] = "kill-pane" /\ ops[k][3]) => ~InSession(panes, ops[k][2])
        /\ (ops[k][1] = "split-window" /\ ops[k][3]) => InSession(panes, NewPane)
        /\ (ops[k][1] = "set-option @typing_bird_injected" /\ ops[k][3])
              => (InSession(panes, NewPane) /\ PaneOf(panes, NewPane).tag = "1")

\* C15 as stated: a failure at any step, the interrupt and destroy of prior
\* panes and the deferred destroy of the invoking pane included, makes the
\* injection end with a non-zero status.
C15_Original ==
    (ipc = "exit" /\ \E k \in 1..Len(ops) : ~ops[k][3]) => injStatus # 0

\* C15 amended: a failure of locating the executable, enumerating the panes,
\* resolving the target, splitting or tagging the new pane ends the injection at
\* once with status 1, no later step runs and nothing done before is undone; a
\* failure to interrupt or destroy a prior pane, or to destroy the invoking
\* pane at the end, is ignored.
C15_FatalSteps ==
    /\ \A k \in 1..Len(ops) :
          (IsFatalCommand(ops[k][1]) /\ ~ops[k][3]) =>
              (k = Len(ops) /\ ipc = "exit" /\ injStatus = 1)
    /\ ipc = "exit" <=> injStatus # -1
    /\ ipc = "exit" =>
          /\ injStatus \in {0, 1}
          /\ injStatus = 1 <=> failedStep # "none"
    /\ failedStep \in {"executable", "enumerate"} => ops = <<>>
    /\ failedStep \in {"executable", "enumerate", "resolve"} =>
          (injectedPaneID = "" /\ OpsOfKind({"split-window"}) = {})
    /\ failedStep = "split" =>
          OpsOfKind({"set-option @typing_bird_injected",
                     "set-option @typing_bird_send_target"}) = {}
    /\ failedStep # "none" => \A k \in 1..Len(ops) : ~HitsCurrent(k)
    /\ NothingRolledBack

C15_Witness ==
    /\ ipc = "exit" /\ injStatus = 1 /\ failedStep = "tag"
    /\ ops = << <<"send-keys C-c", "%1", TRUE>>, <<"kill-pane", "%1", TRUE>>,
                <<"split-window", NewPane, TRUE>>,
                <<"set-option @typing_bird_injected", NewPane, TRUE>>,
                <<"set-option @typing_bird_send_target", NewPane, FALSE>> >>
    /\ ~InSession(panes, "%1") /\ InSession(panes, NewPane)

(***************************************************************************)
(* Properties of the child command line (SpecChild).                       *)
(***************************************************************************)
\* what the child's flag.Parse makes of the list
ChildFlags == flagParse(FlagDefaults(callOut))
\* "--target-pane" directly followed by the target
HasTargetPane(args, t) ==
    \E k \in 1..(Len(args) - 1) : args[k] = "--target-pane" /\ args[k + 1] = t
ChildRunsDispatch ==
    LET child == ChildFlags
        t == callArgs.targetPane
    IN  /\ ~child.err
        /\ ~child.inject
        /\ TrimSpace(t) # "" => (HasTargetPane(callOut, t) /\ child.targetPaneValue = t)
        /\ TrimSpace(t) = "" => child.targetPaneValue = ""
        /\ child.verbose <=> callArgs.verbose
        /\ child.timeoutValue = DurationString(callArgs.timeout)
        /\ child.delayValue = DurationString(callArgs.delay)
        /\ child.args = <<callArgs.session>> \o callArgs.messages

\* C17: the child reads from its argument list no inject flag, the target pane
\* T after --target-pane when T is not empty, the verbose flag iff verbosity is
\* set, and the parent's timeout, delay, session and messages in their order.
C17_ChildNeverInjects == callDone => ChildRunsDispatch

\* What buildChildArgs does guarantee: the same for every session name that
\* does not begin with '-'.
ChildRunsDispatchUnlessDashedSession ==
    (callDone /\ ~Dashed(callArgs.session)) => ChildRunsDispatch

(***************************************************************************)
(* Properties of the shell quoting (SpecQuote).                            *)
(***************************************************************************)
\* C18: read by POSIX rules, shellQuoteSingle(v) is the one word v, for the
\* executable and for every argument, and the command line splits into the
\* executable followed by the arguments, same count and same order.
C18_QuoteRoundTrip ==
    callDone =>
        /\ shWords(shellQuoteSingle(callArgs.executable)) = <<callArgs.executable>>
        /\ \A k \in 1..Len(callArgs.args) :
              shWords(shellQuoteSingle(callArgs.args[k])) = <<callArgs.args[k]>>
        /\ shWords(callOut) = <<callArgs.executable>> \o callArgs.args

\* the string as the range loop of shellQuoteSingle decodes it
Decoded(v) == [k \in 1..Len(v) |-> decodeRune(v[k])]
\* What the quoting does guarantee: the round trip yields the decoded strings,
\* so the claim holds of every well-formed UTF-8 argument.
QuoteRoundTripDecoded ==
    callDone =>
        shWords(callOut)
            = <<Decoded(callArgs.executable)>>
                \o [k \in 1..Len(callArgs.args) |-> Decoded(callArgs.args[k])]

(***************************************************************************)
(* Further properties of the dispatch loop (Spec).                         *)
(***************************************************************************)
\* C19: with no message given the list is the single empty message, never the
\* empty list; every dispatch is then the one key press of the activation key,
\* with no literal, one per successful idle detection, and the index stays 0.
C19_NoMessagesSendsEnter ==
    /\ (pc # "start" /\ ~ConfigError(input)) => Len(messages) >= 1
    /\ (pc # "start" /\ input.args = NoMessages) =>
          /\ messages = << <<>> >>
          /\ messageIndex = 0
          /\ \A k \in 1..Len(dispatched) : dispatched[k] = 0
          /\ pc = "send" =>
                /\ actions = <<sendAction(enterKey, FALSE)>>
                /\ actionIdx = 1
                /\ idleRounds = Len(dispatched) + 1
          /\ Len(dispatched) <= idleRounds

C19_Witness ==
    /\ input.args = NoMessages /\ pc = "send" /\ Len(dispatched) = 2
    /\ actions = <<sendAction(enterKey, FALSE)>>

\* the round in progress holds the captures it took itself, one per sample
C20_RoundState ==
    /\ pc \in {"check", "capture"} => Len(caps) = i
    /\ pc = "sleep" => Len(caps) = i + 1
    /\ pc \in {"check", "capture", "sleep"} => i < defaultIdleSamples
    /\ pc \in {"exists", "backoff"} => (caps = <<>> /\ i = 0)
C20_RoundStep ==
    \* a round starts with no capture, whatever the round before ended with
    /\ (pc = "wait" /\ pc' = "check") => (caps' = <<>> /\ i' = 0)
    \* inside a round the captures only grow, by the one capture just taken
    /\ (pc \in {"check", "capture", "sleep"} /\ pc' \in {"check", "capture", "sleep"})
          => (caps' = caps \/ (pc = "capture" /\ Front(caps') = caps))
    \* success: the last capture of a round made N identical ones of that round
    /\ (pc # "ret" /\ pc' = "ret" /\ waitErr' = "nil")
          => /\ pc \in {"capture", "sleep"}
             /\ i = defaultIdleSamples - 1
             /\ Len(caps') = defaultIdleSamples
             /\ AllIdentical(caps')
             /\ (pc = "capture" => Front(caps') = caps)
             /\ (pc = "sleep" => caps' = caps)

\* C20: every round compares the N captures it took itself.  A round starts
\* with none, gains one per sample, and waitForTargetIdle succeeds only on the
\* N-th capture of a round whose N captures are identical; captures of the
\* round before, identical or not, never count.
C20_NoPartialCredit == []C20_RoundState /\ [][C20_RoundStep]_vars

\* the round before ended not idle with <<1>>, and this round has taken <<1>>
\* four times: five identical captures in a row, across the boundary, no idle
C20_Witness ==
    /\ prevRoundLast = <<1>> /\ pc = "capture" /\ i = 4
    /\ caps = << <<1>>, <<1>>, <<1>>, <<1>> >>
    /\ waitErr = "nil" /\ Len(dispatched) = 0 /\ idleRounds = 0

\* an interrupt received more than the window after the recorded one, or with
\* none recorded, is handled as a first interrupt and cancels nothing
C21_LateStep ==
    /\ (lpc = "select" /\ lpc' # lpc /\ Head(c) = SIGINT
           /\ sinceLast' > interruptWindow) =>
          /\ lpc' = "inform"
          /\ UNCHANGED <<ctxDone, interruptCode, exitStatus>>
    \* it informs, and `last = now` restarts the grace period
    /\ (lpc = "inform" /\ lpc' # lpc) =>
          /\ lpc' = "select" /\ ~lastIsZero' /\ sinceLast' = 0
          /\ UNCHANGED <<ctxDone, interruptCode, exitStatus>>
    \* the code is stored, and the run cancelled, only after a SIGTERM or an
    \* interrupt received within the window of the recorded one
    /\ (interruptCode' # interruptCode \/ ctxDone' # ctxDone) =>
          /\ lpc \in {"store", "cancel"}
          /\ sig = SIGTERM \/ (~lastIsZero /\ sinceLast <= interruptWindow)

\* while only late interrupts were received the listener is waiting or informing
C21_LateState ==
    /\ (lpc \in {"store", "cancel"} /\ sig = SIGINT) =>
          (~lastIsZero /\ sinceLast <= interruptWindow)
    /\ lpc \in {"off", "select", "inform"} =>
          (~ctxDone /\ interruptCode = 0 /\ exitStatus \notin {130, 143})

\* C21: an interrupt received more than interruptWindow after the recorded one
\* never cancels: it informs and overwrites the one recorded time, as a first
\* interrupt does.  The run is cancelled only by a SIGTERM or by an interrupt
\* within the window, so interrupts that are each more than the window after
\* the one before never end the run, however many there are.
C21_LateInterruptRestarts == []C21_LateState /\ [][C21_LateStep]_vars

\* an interrupt long after an earlier recorded one is being answered with the
\* hint, and a further interrupt already waits on the channel
C21_Witness ==
    /\ lpc = "inform" /\ ~lastIsZero /\ sinceLast = interruptWindow + 1
    /\ c = <<SIGINT>> /\ ~ctxDone /\ pc = "send" /\ Len(dispatched) = 1

(***************************************************************************)
(* Further properties of the injection (SpecInject).                       *)
(***************************************************************************)
\* the panes of the range the restart pass has gone past, the invoking pane
\* left out, in the order of the scan
RestartedSoFar ==
    SelectSeq(SubSeq(restartPanes, 1, restartIdx - 1), LAMBDA p : p # currentPane)
\* the resolution of the send target has not begun and no pane was created
NothingResolved ==
    /\ belongs = "unasked" /\ injected = "unasked" /\ sendTargetPane = ""
    /\ injectedPaneID = "" /\ ~InSession(panes, NewPane)

\* C22: the commands of the restart pass are, for each selected pane other than
\* the invoking one and in the order of the scan, the interrupt key and then
\* the destruction of that pane, one pane after the other; while the pass runs
\* no target is resolved and no pane created, and no interrupt key or pane
\* creation comes before the last of these pairs.
C22_RestartOrder ==
    LET done == RestartedSoFar
    IN  /\ ipc \in {"start", "list"} => (ops = <<>> /\ NothingResolved)
        /\ Len(ops) >= 2 * Len(done)
        /\ \A k \in 1..Len(done) :
              /\ ops[2 * k - 1][1] = "send-keys C-c" /\ ops[2 * k - 1][2] = done[k]
              /\ ops[2 * k][1] = "kill-pane" /\ ops[2 * k][2] = done[k]
        /\ \A k \in (2 * Len(done) + 1)..Len(ops) :
              /\ ops[k][1] # "send-keys C-c"
              /\ ops[k][1] = "kill-pane" => (ops[k][2] = currentPane /\ k = Len(ops))
        /\ ipc = "restart" => (Len(ops) = 2 * Len(done) /\ NothingResolved)
        /\ (ipc \in {"belongs", "isInjected", "prefer", "split", "mark", "teardown"}
              \/ ~NothingResolved)
              => restartIdx = Len(restartPanes) + 1

\* two panes were interrupted and destroyed in turn (the second destruction
\* failed), then that pane was resolved and split
C22_Witness ==
    /\ ipc = "mark" /\ restartPanes = <<"%1", "%2">> /\ Len(ops) = 5
    /\ ops[2] = <<"kill-pane", "%1", TRUE>> /\ ops[4] = <<"kill-pane", "%2", FALSE>>
    /\ sendTargetPane = "%2"

\* the argument list the new pane's shell hands to the child, the executable
\* left out, and what the child's flag.Parse makes of it
ChildArgv(pane) ==
    LET words == shWords(pane.command)
    IN  [k \in 1..(Len(words) - 1) |->
            IF words[k + 1] = <<>> THEN "" ELSE words[k + 1][1]]
ChildOf(pane) == flagParse(FlagDefaults(ChildArgv(pane)))

\* the new pane after a successful injection
C23_TaggedState ==
    (ipc = "exit" /\ injStatus = 0) =>
        /\ sendTargetPane # "" /\ injectedPaneID = NewPane
        /\ InSession(panes, NewPane)
        /\ LET new == PaneOf(panes, NewPane)
           IN  /\ new.tag = "1" /\ new.target = sendTargetPane
               /\ new.below = sendTargetPane /\ new.height = 5
               /\ HasTargetPane(ChildArgv(new), sendTargetPane)
               /\ ChildOf(new).targetPaneValue = sendTargetPane
               /\ ~ChildOf(new).err

\* the split is detached and the tags are written by tmuxMarkInjectedPane only
C23_TagStep ==
    /\ (ipc = "split" /\ panes' # panes) =>
          /\ SubSeq(panes', 1, Len(panes)) = panes
          /\ Len(panes') = Len(panes) + 1
          /\ panes'[Len(panes')].id = NewPane
          /\ panes'[Len(panes')].below = sendTargetPane
          /\ panes'[Len(panes')].height = 5 /\ ~panes'[Len(panes')].active
          /\ panes'[Len(panes')].tag = "" /\ panes'[Len(panes')].target = ""
    /\ \A k \in 1..Len(panes) : \A j \in 1..Len(panes') :
          (panes[k].id = panes'[j].id
             /\ (panes[k].tag # panes'[j].tag \/ panes[k].target # panes'[j].target))
            => (ipc = "mark" /\ panes[k].id = injectedPaneID)
    /\ UNCHANGED sendTargetPane \/ ipc \in {"isInjected", "prefer"}

\* C23: after an injection that returned 0 the new pane carries the tag
\* injected = 1 and the tag send-target = T, T being the resolved pane it was
\* split off and the value the child reads as --target-pane; it is five lines
\* high, below T, and the split left the active pane as it was.  Tags are
\* written by the two set-option commands of the injection and by nothing else.
C23_ProvenanceTags == []C23_TaggedState /\ [][C23_TagStep]_vars

\* the injection succeeded from the invoking pane %2, untagged and running a
\* shell, which is the resolved target; the tagged pane %1 was restarted
C23_Witness ==
    /\ ipc = "exit" /\ injStatus = 0 /\ currentPane = "%2" /\ sendTargetPane = "%2"
    /\ ~InSession(panes, "%1") /\ InSession(panes, "%2")
    /\ PaneOf(panes, NewPane).target = "%2" /\ PaneOf(panes, NewPane).tag = "1"

\* The tmux commands of the dispatch loop are capture-pane, display-message
\* and send-keys (main.go:224-227, 315-321, 625-640): no step of a dispatch run
\* changes a pane's options.
DispatchWritesNoTag == [][UNCHANGED panes]_vars

(***************************************************************************)
(* Properties of one round of samples (SpecRound).                         *)
(***************************************************************************)
\* the call ran to completion: every capture succeeded, no cancellation
RoundCompleted == roundPc = "done" /\ roundErr = "nil"
RoundInterval == interval(idleSamples, roundDuration)

\* C24 as stated: the sample count of the dispatch loop is at least 1; a round
\* that runs to completion has made exactly N captures and exactly N-1 sleeps
\* of W/(N-1) each, none after the last capture; with N = 1 it has made one
\* capture and no sleep and reports idle.
C24_Original ==
    /\ defaultIdleSamples >= 1
    /\ RoundCompleted =>
          /\ idleSamples >= 1
          /\ Len(idleCaps) = idleSamples
          /\ Len(roundSleeps) = idleSamples - 1
          /\ \A k \in 1..Len(roundSleeps) : roundSleeps[k] = RoundInterval
          /\ idleSamples = 1 => idleOut.allEqual
    /\ roundPc = "sleep" => Len(idleCaps) < idleSamples

\* C24 amended: the sample count of the dispatch loop is at least 1; a round
\* that runs to completion has made exactly N captures; when the quotient
\* W/(N-1) of the integer division is positive it has made exactly N-1 sleeps
\* of that length, one after each capture but the last, and when the quotient
\* is zero (W < N-1) or N = 1 it has made no sleep at all; with N = 1 it has
\* made one capture and reports idle.
C24_RoundCounts ==
    /\ defaultIdleSamples >= 1
    /\ RoundCompleted =>
          /\ idleSamples >= 1
          /\ Len(idleCaps) = idleSamples
          /\ Len(roundSleeps) =
                (IF idleSamples > 1 /\ RoundInterval > 0 THEN idleSamples - 1 ELSE 0)
          /\ \A k \in 1..Len(roundSleeps) :
                roundSleeps[k] = roundDuration \div (idleSamples - 1)
          /\ idleSamples = 1 => idleOut.allEqual
          /\ idleDone /\ idleOut = idleCompare(idleCaps, idleSamples)
    /\ roundPc = "sleep" =>
          (Len(idleCaps) = roundI + 1 /\ Len(idleCaps) < idleSamples /\ RoundInterval > 0)
    /\ roundPc \in {"check", "capture"} => Len(idleCaps) = roundI
    /\ Len(roundSleeps) <= Len(idleCaps)
    /\ Len(idleCaps) <= idleSamples

\* a round of five samples over a duration of 3 ran to completion: five
\* captures and, the interval being 3 / 4 = 0, no sleep
C24_Witness ==
    /\ RoundCompleted /\ idleSamples = 5 /\ roundDuration = 3
    /\ Len(idleCaps) = 5 /\ roundSleeps = <<>>

\* C25: an injection that returned 0 has not destroyed the pane it resolved as
\* the send target: that pane, the one recorded as send-target of the new
\* pane, is still a pane of the session, and no kill-pane of the restart pass
\* or of the deferred teardown that succeeded was aimed at it.
C25_TargetSurvives ==
    /\ (ipc = "exit" /\ injStatus = 0) =>
          /\ PaneOf(panes, NewPane).target = sendTargetPane
          /\ InSession(panes, sendTargetPane)
    /\ \A k \in 1..Len(ops) : ops[k] # <<"kill-pane", sendTargetPane, TRUE>>

\* What does hold: the restart pass never destroys the pane resolved later, and
\* the target is destroyed only as the invoking pane the scan had selected.
TargetDestroyedOnlyAsInvokingPane ==
    /\ \A k \in 1..Len(ops) :
          ops[k] = <<"kill-pane", sendTargetPane, TRUE>> =>
              /\ k = Len(ops) /\ ipc = "exit" /\ injStatus = 0
              /\ sendTargetPane = currentPane /\ skippedCurrentPane
    /\ (ipc = "exit" /\ injStatus = 0 /\ ~(skippedCurrentPane /\ sendTargetPane = currentPane))
          => InSession(panes, sendTargetPane)

(***************************************************************************)
(* Cancellation and the dispatch of a message (Spec).                      *)
(***************************************************************************)
\* the main goroutine could still complete a message when cancel() was called:
\* it was sending one, or about to, or the last capture of a round was in flight
CancelledInReach ==
    \/ atCancel.pc = "send"
    \/ atCancel.pc = "ret" /\ atCancel.waitErr = "nil"
    \/ atCancel.pc = "capture" /\ atCancel.i = defaultIdleSamples - 1

C26_AfterCancel ==
    /\ ctxDone <=> atCancel # NoCancel
    /\ ctxDone =>
          /\ atCancel.sent <= Len(dispatched)
          /\ Len(dispatched) <= atCancel.sent + 1
          /\ Len(dispatched) = atCancel.sent + 1 => CancelledInReach
          \* with that one message done, nothing is being sent any more
          /\ (Len(dispatched) = atCancel.sent + 1 /\ pc = "send") => FALSE
          /\ (Len(dispatched) = atCancel.sent + 1) =>
                pc \in {"loop", "wait", "ret", "exit"}

C26_SendStep ==
    \* tmuxSendMessage goes from action to action whatever ctx says
    /\ (pc = "send" /\ actionIdx' # actionIdx) =>
          (pc' = "send" /\ actionIdx' = actionIdx + 1 /\ sendFailedAt' = <<>>)
    \* and ends with the message sent in full, or with a failed send
    /\ (pc = "send" /\ pc' # pc) =>
          \/ /\ pc' = "loop" /\ actionIdx = Len(actions)
             /\ dispatched' = Append(dispatched, messageIndex)
             /\ sendFailedAt' = <<>>
          \/ /\ pc' = "exit" /\ exitStatus' = 1 /\ sendFailedAt' # <<>>
             /\ dispatched' = dispatched
    \* run() returns on a cancellation only from waitForTargetIdle
    /\ (pc # "exit" /\ pc' = "exit" /\ exitStatus' \in {0, 130, 143}) =>
          (pc = "ret" /\ waitErr = "canceled" /\ ctxDone)
    \* a message is completed only by its last action
    /\ dispatched' # dispatched => pc = "send"

\* C26: tmuxSendMessage never looks at the context: once waitForTargetIdle has
\* returned success every action of the message is sent unless a send fails.
\* After cancel() was called at most one more message is completed, the one
\* being sent (or about to be) or the one after a round whose last capture was
\* in flight, and after it no further message is begun.
C26_CancelAndDispatch == []C26_AfterCancel /\ [][C26_SendStep]_vars

\* cancel() was called while the last capture of a round was in flight; the
\* round came out idle and its message has been sent in full
C26_Witness ==
    /\ ctxDone /\ atCancel.pc = "capture" /\ atCancel.i = defaultIdleSamples - 1
    /\ atCancel.sent = 1 /\ Len(dispatched) = 2 /\ pc = "loop"

\* cancel() was called in the middle of a message of four actions, which was
\* then sent in full
CancelledMidMessage ==
    /\ ctxDone /\ atCancel.pc = "send" /\ Len(dispatched) = atCancel.sent + 1
    /\ pc = "exit" /\ exitStatus = 143 /\ Len(actions) = 4

(***************************************************************************)
(* The exit code of a cancelled run (Spec).                                *)
(***************************************************************************)
C27_CodeState ==
    \* the code is there when the context is cancelled
    /\ ctxDone => (interruptCode \in {130, 143} /\ lpc = "returned")
    /\ interruptCode # 0 =>
          (lpc \in {"cancel", "returned"}
             /\ interruptCode = (IF sig = SIGTERM THEN 143 ELSE 130))
    \* a run that ended on a cancellation returned the stored code, never 0
    /\ (pc = "exit" /\ waitErr = "canceled") =>
          (ctxDone /\ exitStatus = interruptCode /\ exitStatus \in {130, 143})
    /\ pc = "exit" => exitStatus # 0

C27_CodeStep ==
    \* the code is written once, before cancel()
    /\ interruptCode' # interruptCode =>
          /\ interruptCode = 0 /\ ~ctxDone /\ ~ctxDone'
          /\ lpc = "store" /\ lpc' = "cancel"
    /\ (ctxDone' /\ ~ctxDone) => (lpc = "cancel" /\ interruptCode' = interruptCode)
    \* after cancel() the listener receives nothing more
    /\ ctxDone => (ctxDone' /\ UNCHANGED <<interruptCode, lpc, sig>>
                     /\ (c' = c \/ Front(c') = c))
    \* run() loads the code after waitForTargetIdle returned context.Canceled
    /\ (pc # "exit" /\ pc' = "exit" /\ exitStatus' \notin {1, 2}) =>
          /\ pc = "ret" /\ waitErr = "canceled" /\ ctxDone
          /\ exitStatus' = interruptCode

\* C27: in every interleaving of the listener and the main loop the listener
\* stores the exit code before it cancels and stores it once, receiving no
\* signal after cancel(); run() loads the code only after waitForTargetIdle
\* returned context.Canceled.  A run that ends because of a signal returns the
\* stored code, 130 or 143, never 0.
C27_StoredCodeReturned == []C27_CodeState /\ [][C27_CodeStep]_vars

\* the run ended with 130 although a SIGTERM arrived after the cancellation:
\* it is still on the channel
C27_Witness ==
    /\ pc = "exit" /\ exitStatus = 130 /\ waitErr = "canceled"
    /\ c # <<>> /\ Head(c) = SIGTERM /\ lpc = "returned"

(***************************************************************************)
(* Liveness of the dispatch loop (SpecLive).                               *)
(***************************************************************************)
\* tmux capture-pane fails in this step
CaptureFails == pc = "capture" /\ pc' = "exists"
\* what a capture that succeeds in this step returned
Captured ==
    IF pc' = "wait" THEN prevRoundLast' ELSE caps'[Len(caps')]
\* a step in which the pane shows v, no capture or send fails, the target
\* stays and cancel() is not called
Quiet(v) ==
    /\ ~CaptureFails
    /\ (pc = "capture" /\ pc' # pc) => Captured = v
    /\ sendFailedAt' = sendFailedAt
    /\ targetExists' = targetExists
    /\ ctxDone' = ctxDone
\* message m of the list has just been dispatched in full
Sent(m) == pc = "send" /\ pc' = "loop" /\ messageIndex = m

\* the loop is entered and never left, and from some point on every step is quiet
QuietForEver ==
    /\ [](pc # "exit")
    /\ \/ <>[][Quiet(<<1>>)]_vars
       \/ <>[][Quiet(<<1, 2>>)]_vars

\* a message is begun only after a round of N identical captures
C28_OnlyWhenIdentical ==
    (pc # "send" /\ pc' = "send") =>
        (Len(caps) = defaultIdleSamples /\ AllIdentical(caps))

\* C28: if the run never ends and from some point on the pane's content stays
\* the same, every capture and every send succeeds and cancel() is not called,
\* then with the main loop scheduled fairly every message of the list is
\* dispatched again and again.  And a message is dispatched only after a round
\* whose captures were all identical: while two captures differ in every
\* round, nothing is dispatched.
C28_DispatchesForEver ==
    /\ QuietForEver =>
          \A m \in 0..2 : ([]<><<Sent(m)>>_vars) \/ <>[](Len(messages) <= m)
    /\ [][C28_OnlyWhenIdentical]_vars

\* the log was emptied once and the second message of three has been
\* dispatched again: the fourth round of dispatches is under way
C28_Witness ==
    /\ Len(messages) = 3 /\ dispatched = <<0, 1>> /\ messageIndex = 2
    /\ pc = "send" /\ ~ctxDone /\ targetExists

====
